---- MODULE Spec2Model ----
(***************************************************************************)
(* Frame-timing and composition engine of the remotion package.           *)
(*                                                                         *)
(* Times are exact rationals: a time in seconds is an integer number of   *)
(* ticks of 1/TimeDen second.  Frame numbers, frame counts and fps are    *)
(* integers.  Other real values (interpolation results, focus points,     *)
(* opacities) are reduced fractions <<numerator, denominator>>.           *)
(***************************************************************************)
EXTENDS Integers, Sequences, FiniteSets, TLC

VARIABLES
    tArgs,      \* timing utilities: the arguments of the call
    tRet,       \* timing utilities: the function applied and its result
    shotList,   \* ClipComposition props: the shot list
    preset,     \* ClipComposition props: the preset
    fps,        \* frames per second of the render
    frame,      \* the frame the host asked for last
    out,        \* what the evaluation at that frame gave
    presetName, \* the name getPreset was last asked for
    typographyProps, \* the typography props rendered on their own
    captions    \* ClipComposition props: the caption segments

vars == <<tArgs, tRet, shotList, preset, fps, frame, out, presetName,
          typographyProps, captions>>

----------------------------------------------------------------------------
(* Bounds of the model *)

TimeDen == 4        \* ticks per second
MaxTick == 6        \* largest time stamp, in ticks
MinFps == 4
MaxFps == 6

Ticks == 0..MaxTick
SignedTicks == (0 - MaxTick)..MaxTick
FpsSet == MinFps..MaxFps

None == "undefined"

----------------------------------------------------------------------------
(* Number helpers *)

Abs(n) == IF n < 0 THEN 0 - n ELSE n

Max(a, b) == IF a >= b THEN a ELSE b

Min(a, b) == IF a <= b THEN a ELSE b

RECURSIVE Gcd(_, _)
Gcd(a, b) == IF b = 0 THEN a ELSE Gcd(b, a % b)

\* The reduced fraction n/d, d # 0, with a positive denominator.
Frac(n, d) ==
    LET s == IF d < 0 THEN 0 - 1 ELSE 1
        g == Gcd(Abs(n), Abs(d))
    IN  <<(s * n) \div g, (s * d) \div g>>

\* Math.floor of the rational n/d, d > 0.
MathFloor(n, d) == n \div d

\* Rounding that resolves a tie away from zero.
RoundHalfAwayFromZero(n, d) ==
    IF n >= 0 THEN (2 * n + d) \div (2 * d)
    ELSE 0 - ((2 * (0 - n) + d) \div (2 * d))

\* Math.round of the rational n/d, d > 0: the nearest integer, a tie
\* resolved toward +Infinity (Math.round(x) = floor(x + 1/2)).
MathRound(n, d) == (2 * n + d) \div (2 * d)

FAdd(a, b) == Frac(a[1] * b[2] + b[1] * a[2], a[2] * b[2])

FSub(a, b) == Frac(a[1] * b[2] - b[1] * a[2], a[2] * b[2])

FMul(a, b) == Frac(a[1] * b[1], a[2] * b[2])

FLess(a, b) == a[1] * b[2] < b[1] * a[2]

FInt(n) == <<n, 1>>

----------------------------------------------------------------------------
(* lib/timing.ts *)

\* seconds is a fraction of a tick here (word timings are).
secondsToFramesQ(seconds, fps_) ==
    MathRound(seconds[1] * fps_, seconds[2] * TimeDen)

\* seconds is a whole number of ticks.
secondsToFrames(seconds, fps_) == secondsToFramesQ(FInt(seconds), fps_)

\* A variant that rounds the quotient to a whole number of seconds.
framesToSecondsRounded(frames, fps_) == FInt(MathRound(frames, fps_))

\* frames / fps, as an exact fraction of a second
framesToSeconds(frames, fps_) == Frac(frames, fps_)

durationInFramesNoFloor(startTime, endTime, fps_) ==
    secondsToFrames(endTime - startTime, fps_)

durationInFrames(startTime, endTime, fps_) ==
    Max(1, secondsToFrames(endTime - startTime, fps_))

----------------------------------------------------------------------------
(* presets *)

viralPopup ==
    [name |-> "viral-popup",
     typographyDefaults |-> [fontSize |-> 80, color |-> "#FFFFFF"],
     transitionDefaults |->
         [type |-> "quick-cut", durationFrames |-> 6, flashColor |-> "#FFFFFF"],
     colorScheme |-> [accent |-> "#FFD700", highlight |-> "#FFD700"]]

boldImpact ==
    [name |-> "bold-impact",
     typographyDefaults |-> [fontSize |-> 72, color |-> "#FFFFFF"],
     transitionDefaults |->
         [type |-> "quick-cut", durationFrames |-> 4, flashColor |-> "#000000"],
     colorScheme |-> [accent |-> "#FFFFFF", highlight |-> "#FF3B30"]]

cleanMinimal ==
    [name |-> "clean-minimal",
     typographyDefaults |-> [fontSize |-> 48, color |-> "#FFFFFF"],
     transitionDefaults |->
         [type |-> "fade", durationFrames |-> 12, flashColor |-> None],
     colorScheme |-> [accent |-> "#007AFF", highlight |-> "#007AFF"]]

neonGlow ==
    [name |-> "neon-glow",
     typographyDefaults |-> [fontSize |-> 68, color |-> "#FFFFFF"],
     transitionDefaults |->
         [type |-> "fade", durationFrames |-> 10, flashColor |-> None],
     colorScheme |-> [accent |-> "#00FF88", highlight |-> "#00BFFF"]]

----------------------------------------------------------------------------
(* interpolate(), as the effects call it *)

\* What interpolate() throws on an input range that is not strictly
\* increasing: a 1-tuple where a value is a fraction <<n, d>>, and a record
\* of kind "raised" where a component's result is a record.
RangeError == "Error: inputRange must be strictly monotonically increasing"

RaisedQ == <<RangeError>>

FailedQ(q) == Len(q) = 1

Raised(message) == [kind |-> "raised", error |-> message]

IsRaised(r) == r.kind = "raised"

\* The input after the extrapolation policy of each side has been applied.
Extrapolated(input, inMin, inMax, left, right) ==
    IF input < inMin /\ left = "clamp" THEN inMin
    ELSE IF input > inMax /\ right = "clamp" THEN inMax
    ELSE input

\* interpolate(input, [inMin, inMax], [outMin, outMax], {extrapolateLeft,
\* extrapolateRight}) with the default (identity) easing.  The outputs are
\* fractions.  The input range is validated before anything is computed.
Interpolate(input, inMin, inMax, outMin, outMax, left, right) ==
    IF ~(inMax > inMin) THEN RaisedQ
    ELSE FAdd(outMin,
              FMul(Frac(Extrapolated(input, inMin, inMax, left, right) - inMin,
                        inMax - inMin),
                   FSub(outMax, outMin)))

\* interpolate() with an easing option.  The curve is not evaluated: the
\* result names the curve, the progress t handed to it and the output
\* range, which determine the value (from + curve(t) * (to - from)).
InterpolateEasing(input, inMin, inMax, outMin, outMax, easing) ==
    IF ~(inMax > inMin) THEN Raised(RangeError)
    ELSE [kind |-> "eased", easing |-> easing,
          t |-> Frac(Extrapolated(input, inMin, inMax, "clamp", "clamp") - inMin,
                     inMax - inMin),
          from |-> outMin,
          to |-> outMax]

\* spring({frame, fps, config, durationInFrames}): named by its arguments.
SpringValue(config, localFrame, duration) ==
    [kind |-> "spring", config |-> config, frame |-> localFrame,
     durationInFrames |-> duration]

----------------------------------------------------------------------------
(* effects: ZoomPush, PanSweep, QuickCut, BrollOverlay *)

\* A wrapper outside its window returns its children unchanged; an effect
\* outside its window renders nothing.
PassThrough == [kind |-> "children"]

Nothing == [kind |-> "nothing"]

\* The name getEasing() resolves: an unknown name falls back to linear.
getEasing(name) ==
    IF name \in {"slow", "fast", "linear", "spring"} THEN name ELSE "linear"

\* What an eased interpolation evaluates to, where the curve fixes it: every
\* easing curve maps 0 to 0 and 1 to 1, and the linear one is the identity.
\* <<v>> is the value v, <<>> a value the curve decides inside (0, 1).
EasedAt(eased) ==
    IF eased.t = FInt(0) THEN <<eased.from>>
    ELSE IF eased.t = FInt(1) THEN <<eased.to>>
    ELSE IF eased.easing = "linear"
         THEN <<FAdd(eased.from, FMul(eased.t, FSub(eased.to, eased.from)))>>
    ELSE <<>>

\* A variant that interpolates over [0, duration] and takes the Bezier curve
\* named spring for the spring easing.
ZoomPushOverWholeDuration(localFrame, duration, zoom) ==
    IF localFrame < 0 \/ localFrame >= duration THEN PassThrough
    ELSE InterpolateEasing(localFrame, 0, duration, zoom.from, zoom.to,
                           getEasing(zoom.easing))

\* The scale ZoomPush applies, PassThrough outside its window.
ZoomPush(localFrame, duration, zoom) ==
    IF localFrame < 0 \/ localFrame >= duration THEN PassThrough
    ELSE IF zoom.easing = "spring"
         THEN [kind |-> "sprung", from |-> zoom.from, to |-> zoom.to,
               progress |-> SpringValue("smooth", localFrame, <<duration>>)]
    ELSE InterpolateEasing(localFrame, 0, duration - 1, zoom.from, zoom.to,
                           getEasing(zoom.easing))

\* The translation PanSweep applies, PassThrough outside its window.
PanSweep(localFrame, duration, pan) ==
    IF localFrame < 0 \/ localFrame >= duration THEN PassThrough
    ELSE LET isVertical == pan.direction \in {"up", "down"}
             sign == IF pan.direction \in {"left", "up"} THEN 0 - 1 ELSE 1
             translate == InterpolateEasing(localFrame, 0, duration - 1,
                                            FInt(0), FInt(sign * pan.amount),
                                            getEasing("slow"))
         IN  IF IsRaised(translate) THEN translate
             ELSE [kind |-> "pan", axis |-> IF isVertical THEN "Y" ELSE "X",
                   translate |-> translate]

\* The repository's second copy of PanSweep, the horizontal one: it
\* translates along X whatever the direction, to the left for "left" only.
PanSweepHorizontal(localFrame, duration, pan) ==
    IF localFrame < 0 \/ localFrame >= duration THEN PassThrough
    ELSE LET sign == IF pan.direction = "left" THEN 0 - 1 ELSE 1
             translateX == InterpolateEasing(localFrame, 0, duration - 1,
                                             FInt(0), FInt(sign * pan.amount),
                                             getEasing("slow"))
         IN  IF IsRaised(translateX) THEN translateX
             ELSE [kind |-> "pan", axis |-> "X", translate |-> translateX]

\* A variant whose flash peaks at half the duration.
QuickCutPeakAtHalf(localFrame, duration) ==
    IF localFrame < 0 \/ localFrame >= duration THEN PassThrough
    ELSE LET peakFrame == MathFloor(duration, 2)
             flashOpacity ==
                 IF localFrame <= peakFrame
                 THEN Interpolate(localFrame, 0, peakFrame, FInt(0), FInt(1),
                                  "extend", "clamp")
                 ELSE Interpolate(localFrame, peakFrame, duration,
                                  FInt(1), FInt(0), "clamp", "clamp")
             contentOpacity ==
                 Interpolate(localFrame, peakFrame, duration, FInt(0), FInt(1),
                             "clamp", "clamp")
         IN  IF FailedQ(flashOpacity) \/ FailedQ(contentOpacity)
             THEN Raised(RangeError)
             ELSE [kind |-> "quick-cut", flashOpacity |-> flashOpacity,
                   contentOpacity |-> contentOpacity]

\* QuickCut around its children: PassThrough outside its window, else the
\* flash overlay's opacity and the opacity given to the children.
QuickCut(localFrame, duration) ==
    IF localFrame < 0 \/ localFrame >= duration THEN PassThrough
    ELSE LET peakFrame == MathFloor(duration * 3, 10)
             flashOpacity ==
                 IF localFrame <= peakFrame
                 THEN Interpolate(localFrame, 0, peakFrame, FInt(0), FInt(1),
                                  "extend", "clamp")
                 ELSE Interpolate(localFrame, peakFrame, duration,
                                  FInt(1), FInt(0), "clamp", "clamp")
             contentOpacity ==
                 Interpolate(localFrame, peakFrame, duration, FInt(0), FInt(1),
                             "clamp", "clamp")
         IN  IF FailedQ(flashOpacity) \/ FailedQ(contentOpacity)
             THEN Raised(RangeError)
             ELSE [kind |-> "quick-cut", flashOpacity |-> flashOpacity,
                   contentOpacity |-> contentOpacity]

DefaultBrollOpacity == <<3, 5>>

\* A variant of BrollOverlay that never fades out.
BrollOverlayNoFadeOut(localFrame, duration, opacity) ==
    IF localFrame < 0 \/ localFrame >= duration THEN Nothing
    ELSE LET maxOpacity == IF opacity = <<>> THEN DefaultBrollOpacity
                           ELSE opacity
             fadeInDuration == Min(10, MathFloor(duration * 15, 100))
             fadeIn == Interpolate(localFrame, 0, fadeInDuration,
                                   FInt(0), maxOpacity, "clamp", "clamp")
         IN  IF FailedQ(fadeIn) THEN Raised(RangeError)
             ELSE [kind |-> "broll", opacity |-> fadeIn]

\* BrollOverlay: Nothing outside its window, else its opacity.  The opacity
\* prop is <<>> when the scene gives none.
BrollOverlay(localFrame, duration, opacity) ==
    IF localFrame < 0 \/ localFrame >= duration THEN Nothing
    ELSE LET maxOpacity == IF opacity = <<>> THEN DefaultBrollOpacity
                           ELSE opacity
             fadeInDuration == Min(10, MathFloor(duration * 15, 100))
             fadeOutDuration == Min(10, MathFloor(duration * 15, 100))
             fadeOutStart == duration - fadeOutDuration
             fadeIn == Interpolate(localFrame, 0, fadeInDuration,
                                   FInt(0), maxOpacity, "clamp", "clamp")
             fadeOut == Interpolate(localFrame, fadeOutStart, duration,
                                    maxOpacity, FInt(0), "clamp", "clamp")
         IN  IF FailedQ(fadeIn) THEN Raised(RangeError)
             ELSE IF localFrame >= fadeOutStart
                  THEN IF FailedQ(fadeOut) THEN Raised(RangeError)
                       ELSE [kind |-> "broll", opacity |-> fadeOut]
             ELSE [kind |-> "broll", opacity |-> fadeIn]

----------------------------------------------------------------------------
(* effects: KineticSlam, GlowReveal, BounceIn, WordByWord *)

\* Exit-fade window of KineticSlam, GlowReveal and BounceIn, in frames.
ExitFadeFrames == 8

\* A variant with no exit fade at all.
ExitOpacityNeverFades(localFrame, duration) == FInt(1)

\* The exit fade the three single-text effects compute.
ExitOpacity(localFrame, duration) ==
    LET exitStart == duration - ExitFadeFrames
    IN  IF localFrame >= exitStart
        THEN Interpolate(localFrame, exitStart, duration, FInt(1), FInt(0),
                         "clamp", "clamp")
        ELSE FInt(1)

\* Each effect gives Nothing outside its window (it renders nothing), else the
\* style of its container: the container's opacity is opacity * exitOpacity.
KineticSlam(localFrame, duration) ==
    IF localFrame < 0 \/ localFrame >= duration THEN Nothing
    ELSE [kind |-> "effect", effect |-> "kinetic-slam",
          progress |-> SpringValue("bouncy", localFrame, <<>>),
          opacity |-> Interpolate(localFrame, 0, 2, FInt(0), FInt(1),
                                  "extend", "clamp"),
          exitOpacity |-> ExitOpacity(localFrame, duration)]

\* A variant of GlowReveal that still renders at the frame after its window.
GlowRevealClosedWindow(localFrame, duration) ==
    IF localFrame < 0 \/ localFrame > duration THEN Nothing
    ELSE [kind |-> "effect", effect |-> "glow-reveal",
          progress |-> SpringValue("smooth", localFrame, <<>>),
          opacity |-> <<"progress">>,
          exitOpacity |-> ExitOpacity(localFrame, duration)]

GlowReveal(localFrame, duration) ==
    IF localFrame < 0 \/ localFrame >= duration THEN Nothing
    ELSE [kind |-> "effect", effect |-> "glow-reveal",
          progress |-> SpringValue("smooth", localFrame, <<>>),
          opacity |-> <<"progress">>,
          exitOpacity |-> ExitOpacity(localFrame, duration)]

BounceIn(localFrame, duration) ==
    IF localFrame < 0 \/ localFrame >= duration THEN Nothing
    ELSE [kind |-> "effect", effect |-> "bounce-in",
          progress |-> SpringValue("bouncy", localFrame, <<>>),
          opacity |-> <<"progress">>,
          exitOpacity |-> ExitOpacity(localFrame, duration)]

\* A variant of getWordStyle in which a word appears a frame late.
WordStyleAppearingLate(word, baseTime, localFrame, fps_) ==
    LET wordStart == secondsToFramesQ(FSub(word.startTime, baseTime), fps_) + 1
        relativeTime == FAdd(Frac(localFrame * TimeDen, fps_), baseTime)
        isActive == /\ ~FLess(relativeTime, word.startTime)
                    /\ FLess(relativeTime, word.endTime)
        hasAppeared == localFrame >= wordStart
    IN  IF ~hasAppeared
        THEN [text |-> word.text, hasAppeared |-> FALSE, isActive |-> isActive,
              appearFrame |-> <<>>]
        ELSE [text |-> word.text, hasAppeared |-> TRUE, isActive |-> isActive,
              appearFrame |-> <<localFrame - wordStart>>]

\* WordByWord's getWordStyle for one word; words carry times as fractions
\* of ticks.  relativeTime = localFrame / fps + baseTime, in ticks.  A word
\* that has not appeared has opacity 0; one that has is driven by the
\* snappy spring at frame appearFrame.
WordStyle(word, baseTime, localFrame, fps_) ==
    LET wordStart == secondsToFramesQ(FSub(word.startTime, baseTime), fps_)
        relativeTime == FAdd(Frac(localFrame * TimeDen, fps_), baseTime)
        isActive == /\ ~FLess(relativeTime, word.startTime)
                    /\ FLess(relativeTime, word.endTime)
        hasAppeared == localFrame >= wordStart
    IN  IF ~hasAppeared
        THEN [text |-> word.text, hasAppeared |-> FALSE, isActive |-> isActive,
              appearFrame |-> <<>>]
        ELSE [text |-> word.text, hasAppeared |-> TRUE, isActive |-> isActive,
              appearFrame |-> <<localFrame - wordStart>>]

\* WordByWord: its container style has no opacity of its own and the effect
\* computes no exit fade, so the factor applied to the whole block is 1.
WordByWord(words, localFrame, duration, fps_) ==
    IF localFrame < 0 \/ localFrame >= duration THEN Nothing
    ELSE LET baseTime == IF Len(words) > 0 THEN words[1].startTime
                         ELSE FInt(0)
         IN  [kind |-> "effect", effect |-> "word-by-word",
              words |-> <<>> \o [i \in 1..Len(words) |->
                            WordStyle(words[i], baseTime, localFrame, fps_)],
              exitOpacity |-> FInt(1)]

----------------------------------------------------------------------------
(* compositions/ClipComposition.tsx: TypographyRenderer *)

\* String.prototype.split(/\s+/) on a text given as a sequence of
\* characters: the tokens between maximal runs of spaces (a leading or
\* trailing run leaves an empty token, the empty text one empty token).
RECURSIVE SplitFrom(_, _, _, _)
SplitFrom(text, i, cur, acc) ==
    IF i > Len(text) THEN Append(acc, cur)
    ELSE IF text[i] = " "
         THEN IF i > 1 /\ text[i - 1] = " "
              THEN SplitFrom(text, i + 1, cur, acc)
              ELSE SplitFrom(text, i + 1, <<>>, Append(acc, cur))
    ELSE SplitFrom(text, i + 1, Append(cur, text[i]), acc)

SplitWhitespace(text) == SplitFrom(text, 1, <<>>, <<>>)

\* A value that is no Preset has no typographyDefaults, colorScheme or
\* transitionDefaults: reading a field of one of them raises a TypeError.
TypeError == "TypeError: Cannot read properties of undefined"

IsPreset(p) == "transitionDefaults" \in DOMAIN p

\* The pseudo-timed words TypographyRenderer hands to WordByWord.
TypographyWords(typography) ==
    LET arr == SplitWhitespace(typography.text)
        total == typography.exitAt - typography.enterAt
    IN  <<>> \o [i \in 1..Len(arr) |->
            [text |-> arr[i],
             startTime |-> FAdd(FInt(typography.enterAt),
                                Frac((i - 1) * total, Len(arr))),
             endTime |-> FAdd(FInt(typography.enterAt),
                              Frac(i * total, Len(arr)))]]

\* A variant that counts enterAt from the start of the clip.
TypographyRendererFromClipStart(typography, sceneStartTime, fps_, preset_, localFrame) ==
    LET enterFrame == secondsToFrames(typography.enterAt, fps_)
        duration == durationInFrames(typography.enterAt, typography.exitAt,
                                     fps_)
        readsPreset == \/ typography.color = None
                       \/ typography.fontSize = <<>>
                       \/ typography.style \in {"word-by-word", "glow-reveal"}
        l == localFrame - enterFrame
        effect == CASE typography.style = "kinetic-slam" ->
                           KineticSlam(l, duration)
                    [] typography.style = "word-by-word" ->
                           WordByWord(TypographyWords(typography), l, duration,
                                      fps_)
                    [] typography.style = "glow-reveal" ->
                           GlowReveal(l, duration)
                    [] typography.style = "bounce-in" ->
                           BounceIn(l, duration)
                    [] OTHER -> KineticSlam(l, duration)
    IN  IF readsPreset /\ ~IsPreset(preset_) THEN Raised(TypeError)
        ELSE IF effect.kind = "nothing" THEN Nothing
        ELSE [kind |-> "typography", style |-> effect,
              color |-> IF typography.color # None THEN typography.color
                        ELSE preset_.typographyDefaults.color,
              fontSize |-> IF typography.fontSize # <<>>
                           THEN typography.fontSize[1]
                           ELSE preset_.typographyDefaults.fontSize,
              startFrame |-> enterFrame,
              durationInFrames |-> duration]

\* The typography layer at scene-local frame localFrame: Nothing outside the
\* effect's window, raised when a preset default is read from a value that
\* is no Preset.  color is a string or None, fontSize <<n>> or <<>>.
TypographyRenderer(typography, sceneStartTime, fps_, preset_, localFrame) ==
    LET enterFrame == secondsToFrames(typography.enterAt - sceneStartTime, fps_)
        duration == durationInFrames(typography.enterAt, typography.exitAt,
                                     fps_)
        readsPreset == \/ typography.color = None
                       \/ typography.fontSize = <<>>
                       \/ typography.style \in {"word-by-word", "glow-reveal"}
        l == localFrame - enterFrame
        effect == CASE typography.style = "kinetic-slam" ->
                           KineticSlam(l, duration)
                    [] typography.style = "word-by-word" ->
                           WordByWord(TypographyWords(typography), l, duration,
                                      fps_)
                    [] typography.style = "glow-reveal" ->
                           GlowReveal(l, duration)
                    [] typography.style = "bounce-in" ->
                           BounceIn(l, duration)
                    [] OTHER -> KineticSlam(l, duration)
    IN  IF readsPreset /\ ~IsPreset(preset_) THEN Raised(TypeError)
        ELSE IF effect.kind = "nothing" THEN Nothing
        ELSE [kind |-> "typography", style |-> effect,
              color |-> IF typography.color # None THEN typography.color
                        ELSE preset_.typographyDefaults.color,
              fontSize |-> IF typography.fontSize # <<>>
                           THEN typography.fontSize[1]
                           ELSE preset_.typographyDefaults.fontSize,
              startFrame |-> enterFrame,
              durationInFrames |-> duration]

----------------------------------------------------------------------------
(* compositions/ClipComposition.tsx: SceneRenderer *)

\* An optional prop is <<>> when absent and <<value>> when present.
Has(opt) == opt # <<>>

\* The camera-effect content: the plain fill wrapped in ZoomPush, then in
\* PanSweep, each over the whole scene.
CameraContent(scene, sceneDuration, localFrame) ==
    LET zoom == IF Has(scene.zoom)
                THEN ZoomPush(localFrame, sceneDuration, scene.zoom[1])
                ELSE Nothing
        pan == IF Has(scene.pan)
               THEN PanSweep(localFrame, sceneDuration, scene.pan[1])
               ELSE Nothing
    IN  IF IsRaised(zoom) THEN zoom
        ELSE IF IsRaised(pan) THEN pan
        ELSE [kind |-> "camera", zoom |-> zoom, pan |-> pan,
              transformOrigin |-> <<IF Has(scene.focusX) THEN scene.focusX[1]
                                    ELSE <<1, 2>>,
                                    IF Has(scene.focusY) THEN scene.focusY[1]
                                    ELSE <<1, 2>>>>]

\* The transition a scene gets: the scene's own tag decides, and the
\* preset's transitionDefaults.type is never read.
TransitionOf(scene, preset_) == scene.transition

\* The layers of one mounted scene at its local frame, back to front:
\* camera content (with its transition), typography, B-roll.
SceneRenderer(scene, sceneDuration, fps_, preset_, localFrame) ==
    LET content == CameraContent(scene, sceneDuration, localFrame)
        transition == TransitionOf(scene, preset_)
        readsPreset == transition \in {"quick-cut", "fade"}
        transitionDuration == preset_.transitionDefaults.durationFrames
        quickCut == QuickCut(localFrame, transitionDuration)
        fadeOpacity == Interpolate(localFrame, 0, transitionDuration,
                                   FInt(0), FInt(1), "clamp", "clamp")
        camera ==
            CASE transition = "quick-cut" ->
                     IF IsRaised(quickCut) THEN quickCut
                     ELSE [kind |-> "layers", layers |->
                            <<[kind |-> "camera", content |-> content,
                               wrapper |-> quickCut,
                               flashColor |->
                                   preset_.transitionDefaults.flashColor]>>
                            \o (IF localFrame >= transitionDuration
                                THEN <<[kind |-> "camera", content |-> content,
                                        wrapper |-> Nothing,
                                        flashColor |-> None]>>
                                ELSE <<>>)]
              [] transition = "fade" ->
                     IF FailedQ(fadeOpacity) THEN Raised(RangeError)
                     ELSE [kind |-> "layers", layers |->
                            <<[kind |-> "camera", content |-> content,
                               wrapper |-> [kind |-> "fade",
                                            opacity |-> fadeOpacity],
                               flashColor |-> None]>>]
              [] OTHER ->
                     [kind |-> "layers", layers |->
                            <<[kind |-> "camera", content |-> content,
                               wrapper |-> Nothing, flashColor |-> None]>>]
        typography ==
            IF Has(scene.typography)
            THEN TypographyRenderer(scene.typography[1], scene.startTime, fps_,
                                    preset_, localFrame)
            ELSE Nothing
        broll ==
            IF Has(scene.broll)
            THEN BrollOverlay(
                     localFrame - secondsToFrames(
                         scene.broll[1].enterAt - scene.startTime, fps_),
                     durationInFrames(scene.broll[1].enterAt,
                                      scene.broll[1].exitAt, fps_),
                     scene.broll[1].opacity)
            ELSE Nothing
    IN  IF IsRaised(content) THEN content
        ELSE IF readsPreset /\ ~IsPreset(preset_) THEN Raised(TypeError)
        ELSE IF IsRaised(camera) THEN camera
        ELSE IF IsRaised(typography) THEN typography
        ELSE IF IsRaised(broll) THEN broll
        ELSE [kind |-> "layers", layers |->
                camera.layers
                \o (IF typography.kind = "nothing" THEN <<>>
                    ELSE <<typography>>)
                \o (IF broll.kind = "nothing" THEN <<>> ELSE <<broll>>)]

----------------------------------------------------------------------------
(* CaptionOverlay *)

Upper ==
    <<"A", "B", "C", "D", "E", "F", "G", "H", "I", "J", "K", "L", "M",
      "N", "O", "P", "Q", "R", "S", "T", "U", "V", "W", "X", "Y", "Z">>

Lower ==
    <<"a", "b", "c", "d", "e", "f", "g", "h", "i", "j", "k", "l", "m",
      "n", "o", "p", "q", "r", "s", "t", "u", "v", "w", "x", "y", "z">>

\* String.prototype.toLowerCase on a text given as a sequence of characters.
toLowerCase(text) ==
    <<>> \o [i \in DOMAIN text |->
        IF \E k \in DOMAIN Upper : Upper[k] = text[i]
        THEN Lower[CHOOSE k \in DOMAIN Upper : Upper[k] = text[i]]
        ELSE text[i]]

\* A variant whose intervals are closed at endTime.
FindActiveClosed(items, currentTime) ==
    LET hits == {i \in DOMAIN items :
                    /\ ~FLess(currentTime, FInt(items[i].startTime))
                    /\ ~FLess(FInt(items[i].endTime), currentTime)}
    IN  IF hits = {} THEN 0
        ELSE CHOOSE i \in hits : \A j \in hits : i <= j

\* Array.prototype.find over items with startTime <= currentTime < endTime:
\* the index of the first one, 0 when none.  Times of items are whole ticks,
\* currentTime is a fraction of ticks.
FindActive(items, currentTime) ==
    LET hits == {i \in DOMAIN items :
                    /\ ~FLess(currentTime, FInt(items[i].startTime))
                    /\ FLess(currentTime, FInt(items[i].endTime))}
    IN  IF hits = {} THEN 0
        ELSE CHOOSE i \in hits : \A j \in hits : i <= j

getActiveWord(words, currentTime) == FindActive(words, currentTime)

getActiveSegment(segments, currentTime) == FindActive(segments, currentTime)

getDefaultHighlightColor(style) ==
    CASE style = "viral-popup" -> "#FFD700"
      [] style = "clean-minimal" -> "#007AFF"
      [] style = "bold-impact" -> "#FFFF00"
      [] style = "neon-glow" -> "#00BFFF"
      [] OTHER -> "#FFD700"

\* The color entry of getWordDynamicStyle.
getWordDynamicStyle(style, isActive, isEmphasized, colorOverride) ==
    LET activeColor == IF colorOverride # None THEN colorOverride
                       ELSE getDefaultHighlightColor(style)
        color == IF isActive \/ isEmphasized THEN activeColor ELSE "#FFFFFF"
    IN  CASE style = "viral-popup" -> color
          [] style = "clean-minimal" ->
                 IF isActive THEN activeColor ELSE "rgba(255,255,255,0.9)"
          [] style = "bold-impact" ->
                 IF isActive \/ isEmphasized THEN "#FFFF00" ELSE "#FFFFFF"
          [] style = "neon-glow" -> color
          [] OTHER -> color

\* The textShadow entry of getWordDynamicStyle, with the color it glows in.
getWordTextShadow(style, isActive, colorOverride) ==
    LET activeColor == IF colorOverride # None THEN colorOverride
                       ELSE getDefaultHighlightColor(style)
    IN  CASE style = "viral-popup" ->
                 IF isActive THEN <<"glow 20px", activeColor>>
                 ELSE <<"shadow 0 2px 10px">>
          [] style = "clean-minimal" -> <<"shadow 0 1px 4px">>
          [] style = "bold-impact" -> <<"shadow 0 2px 6px">>
          [] style = "neon-glow" ->
                 IF isActive THEN <<"glow 15px 30px 45px", activeColor>>
                 ELSE <<"glow 8px", activeColor>>
          [] OTHER -> <<>>

\* Where the caption block sits.
getContainerStyle(style) ==
    CASE style = "viral-popup" -> "middle"
      [] style = "clean-minimal" -> "bottom 60px"
      [] style = "bold-impact" -> "bottom 0px"
      [] style = "neon-glow" -> "middle"
      [] OTHER -> "bottom 60px"

getBackdropStyle(style) ==
    CASE style = "bold-impact" ->
             [backgroundColor |-> "rgba(200, 10, 10, 0.85)",
              padding |-> "14px 40px"]
      [] style = "clean-minimal" ->
             [backgroundColor |-> "rgba(0, 0, 0, 0.5)", padding |-> "10px 24px"]
      [] OTHER -> [backgroundColor |-> None, padding |-> "10px 20px"]

getGap(style) ==
    CASE style = "viral-popup" -> "6px 14px"
      [] style = "bold-impact" -> "4px 12px"
      [] OTHER -> "4px 8px"

\* defaults[style] ?? defaults['clean-minimal']; fontSizeOverride is <<>>
\* or <<n>>.
getWordBaseStyle(style, fontSizeOverride) ==
    LET Size(n) == IF fontSizeOverride # <<>> THEN fontSizeOverride[1] ELSE n
    IN  CASE style = "viral-popup" ->
                 [fontSize |-> Size(64), fontWeight |-> 900,
                  textTransform |-> "uppercase"]
          [] style = "bold-impact" ->
                 [fontSize |-> Size(44), fontWeight |-> 800,
                  textTransform |-> "uppercase"]
          [] style = "neon-glow" ->
                 [fontSize |-> Size(48), fontWeight |-> 700,
                  textTransform |-> "uppercase"]
          [] OTHER ->
                 [fontSize |-> Size(36), fontWeight |-> 500,
                  textTransform |-> "none"]

\* One word of the active segment.  A word that has not appeared keeps the
\* base style at opacity 0; one that has is popped in by the snappy spring
\* and takes the dynamic style.
CaptionWordSpan(word, isActive, isEmphasized, style, fontSizeOverride, colorOverride, localFrame, fps_, baseTime) ==
    LET wordStartFrame == MathRound((word.startTime - baseTime) * fps_, TimeDen)
        hasAppeared == localFrame >= wordStartFrame
    IN  IF ~hasAppeared
        THEN [text |-> word.text, hasAppeared |-> FALSE,
              isActive |-> isActive, isEmphasized |-> isEmphasized,
              color |-> None, pop |-> Nothing, textShadow |-> <<>>,
              base |-> getWordBaseStyle(style, fontSizeOverride)]
        ELSE [text |-> word.text, hasAppeared |-> TRUE,
              isActive |-> isActive, isEmphasized |-> isEmphasized,
              color |-> getWordDynamicStyle(style, isActive, isEmphasized,
                                            colorOverride),
              pop |-> SpringValue("snappy",
                                  Max(0, localFrame - wordStartFrame), <<>>),
              textShadow |-> getWordTextShadow(style, isActive, colorOverride),
              base |-> getWordBaseStyle(style, fontSizeOverride)]

\* The words of the segment active at currentTime, styled.
CaptionWords(segment, currentTime, style, emphasizeWords, fontSizeOverride, colorOverride, localFrame, fps_, baseTime) ==
    <<>> \o [i \in DOMAIN segment.words |->
        CaptionWordSpan(
            segment.words[i],
            getActiveWord(segment.words, currentTime) = i,
            \E k \in DOMAIN emphasizeWords :
                toLowerCase(emphasizeWords[k])
                    = toLowerCase(segment.words[i].text),
            style, fontSizeOverride, colorOverride, localFrame, fps_, baseTime)]

\* The caption layer at the frame, Nothing when the overlay renders null.
CaptionOverlay(segments, style, emphasizeWords, startFrame, duration, fontSizeOverride, colorOverride, fps_, f) ==
    IF f - startFrame < 0 \/ f - startFrame >= duration THEN Nothing
    ELSE IF Len(segments) = 0 THEN Nothing
    ELSE LET baseTime == segments[1].startTime
             currentTime == FAdd(FInt(baseTime),
                                 FMul(framesToSeconds(f - startFrame, fps_),
                                      FInt(TimeDen)))
             active == getActiveSegment(segments, currentTime)
         IN  IF active = 0 THEN Nothing
             ELSE [kind |-> "captions", style |-> style, segment |-> active,
                   container |-> getContainerStyle(style),
                   backdrop |-> getBackdropStyle(style),
                   gap |-> getGap(style),
                   words |-> CaptionWords(segments[active], currentTime, style,
                                          emphasizeWords, fontSizeOverride,
                                          colorOverride, f - startFrame, fps_,
                                          baseTime)]

----------------------------------------------------------------------------
(* compositions/ClipComposition.tsx: ClipComposition *)

SceneStart(clip, scene, fps_) ==
    secondsToFrames(scene.startTime - clip.startTime, fps_)

SceneDuration(scene, fps_) ==
    durationInFrames(scene.startTime, scene.endTime, fps_)

\* Whether the scene's Sequence mounts its children at the frame.
SceneMounted(clip, scene, fps_, f) ==
    /\ f >= SceneStart(clip, scene, fps_)
    /\ f < SceneStart(clip, scene, fps_) + SceneDuration(scene, fps_)

\* findIndex: the first scene whose window holds the frame, 0 when none
\* (scenes are numbered from 1).
currentSceneIndex(clip, fps_, f) ==
    LET hits == {i \in 1..Len(clip.scenes) :
                    SceneMounted(clip, clip.scenes[i], fps_, f)}
    IN  IF hits = {} THEN 0
        ELSE CHOOSE i \in hits : \A j \in hits : i <= j

FocusOr(opt) == IF Has(opt) THEN opt[1] ELSE <<1, 2>>

\* The focus point <<focusX, focusY>> of the base video at the frame,
\* RaisedQ when the blend's interpolation raises.
Focus(clip, fps_, f) ==
    LET idx == currentSceneIndex(clip, fps_, f)
        n == Len(clip.scenes)
        hasActive == n > 0
        activeScene == IF idx > 0 THEN clip.scenes[idx] ELSE clip.scenes[1]
        hasNext == idx > 0 /\ idx < n
        nextScene == clip.scenes[idx + 1]
        currentFocusX == IF hasActive THEN FocusOr(activeScene.focusX)
                         ELSE <<1, 2>>
        currentFocusY == IF hasActive THEN FocusOr(activeScene.focusY)
                         ELSE <<1, 2>>
        sceneStart == SceneStart(clip, activeScene, fps_)
        sceneDuration == SceneDuration(activeScene, fps_)
        localFrame == f - sceneStart
        transitionFrames == Min(MathRound(fps_, 2),
                                MathFloor(sceneDuration, 3))
        transitionStart == sceneDuration - transitionFrames
        t == Interpolate(localFrame, transitionStart, sceneDuration - 1,
                         FInt(0), FInt(1), "clamp", "clamp")
    IN  IF hasNext /\ hasActive /\ localFrame >= transitionStart
        THEN IF FailedQ(t) THEN RaisedQ
             ELSE <<FAdd(currentFocusX,
                         FMul(FSub(FocusOr(nextScene.focusX), currentFocusX),
                              t)),
                    FAdd(currentFocusY,
                         FMul(FSub(FocusOr(nextScene.focusY), currentFocusY),
                              t))>>
        ELSE <<currentFocusX, currentFocusY>>

\* (x * 100).toFixed(1), in tenths of a percent.
ToFixed1(x) == MathRound(x[1] * 1000, x[2])

\* The layers of scene i from what its renderer gave, ahead of the layers
\* of the scenes after it.
TaggedLayers(i, here, rest) ==
    IF IsRaised(here) THEN here
    ELSE IF IsRaised(rest) THEN rest
    ELSE [kind |-> "layers", layers |->
            [k \in 1..Len(here.layers) |->
                [scene |-> i, layer |-> here.layers[k]]]
            \o rest.layers]

\* One Sequence per scene: scenes i.. of the clip at frame f.
RECURSIVE SceneLayers(_, _, _, _, _)
SceneLayers(clip, preset_, fps_, f, i) ==
    IF i > Len(clip.scenes) THEN [kind |-> "layers", layers |-> <<>>]
    ELSE TaggedLayers(
             i,
             IF SceneMounted(clip, clip.scenes[i], fps_, f)
             THEN SceneRenderer(clip.scenes[i],
                                SceneDuration(clip.scenes[i], fps_), fps_,
                                preset_,
                                f - SceneStart(clip, clip.scenes[i], fps_))
             ELSE [kind |-> "layers", layers |-> <<>>],
             SceneLayers(clip, preset_, fps_, f, i + 1))

\* The source video under the scene layers: mounted for the clip's frames,
\* positioned at the focus point.
VideoLayer(clip, fps_, f, focus) ==
    IF f >= 0 /\ f < durationInFrames(clip.startTime, clip.endTime, fps_)
    THEN <<[scene |-> 0,
            layer |-> [kind |-> "video",
                       startFrom |-> secondsToFrames(clip.startTime, fps_),
                       focus |-> focus,
                       objectPosition |->
                           <<ToFixed1(focus[1]), ToFixed1(focus[2])>>]]>>
    ELSE <<>>

\* The caption Sequence over the clip's frames, when there are segments.
CaptionLayer(clip, captions_, fps_, f) ==
    IF /\ Len(captions_) > 0
       /\ f >= 0
       /\ f < durationInFrames(clip.startTime, clip.endTime, fps_)
    THEN CaptionOverlay(captions_, clip.captions.style,
                        clip.captions.emphasizeWords, 0,
                        durationInFrames(clip.startTime, clip.endTime, fps_),
                        clip.captions.fontSize, clip.captions.color, fps_, f)
    ELSE Nothing

\* A variant that puts the caption overlay under the video.
ComposedCaptionsFirst(clip, fps_, f, focus, scenes, captionLayer) ==
    IF FailedQ(focus) THEN Raised(RangeError)
    ELSE IF IsRaised(scenes) THEN scenes
    ELSE [kind |-> "frame",
          layers |-> (IF captionLayer.kind = "nothing" THEN <<>>
                      ELSE <<[scene |-> 0, layer |-> captionLayer]>>)
                     \o VideoLayer(clip, fps_, f, focus)
                     \o scenes.layers]

Composed(clip, fps_, f, focus, scenes, captionLayer) ==
    IF FailedQ(focus) THEN Raised(RangeError)
    ELSE IF IsRaised(scenes) THEN scenes
    ELSE [kind |-> "frame",
          layers |-> VideoLayer(clip, fps_, f, focus)
                     \o scenes.layers
                     \o (IF captionLayer.kind = "nothing" THEN <<>>
                         ELSE <<[scene |-> 0, layer |-> captionLayer]>>)]

\* A variant that renders the last clip of the shot list.
ClipCompositionOfLastClip(shotList_, captions_, preset_, fps_, f) ==
    IF Len(shotList_.clips) = 0 THEN [kind |-> "frame", layers |-> <<>>]
    ELSE Composed(shotList_.clips[Len(shotList_.clips)], fps_, f,
                  Focus(shotList_.clips[Len(shotList_.clips)], fps_, f),
                  SceneLayers(shotList_.clips[Len(shotList_.clips)], preset_, fps_, f, 1),
                  CaptionLayer(shotList_.clips[Len(shotList_.clips)], captions_, fps_, f))

\* What evaluating the composition at frame f gives: the layers over the
\* black background, back to front, or what the evaluation raised.
ClipComposition(shotList_, captions_, preset_, fps_, f) ==
    IF Len(shotList_.clips) = 0 THEN [kind |-> "frame", layers |-> <<>>]
    ELSE Composed(shotList_.clips[1], fps_, f,
                  Focus(shotList_.clips[1], fps_, f),
                  SceneLayers(shotList_.clips[1], preset_, fps_, f, 1),
                  CaptionLayer(shotList_.clips[1], captions_, fps_, f))

----------------------------------------------------------------------------
(* Timing utilities applied to drawn arguments *)

TimingArgs ==
    [seconds : SignedTicks, startTime : Ticks, endTime : Ticks, fps : FpsSet]

Idle == "idle"

InitTiming ==
    /\ tArgs \in TimingArgs
    /\ tRet = [fn |-> None]
    /\ shotList = Idle /\ preset = Idle /\ fps = Idle
    /\ frame = Idle /\ out = Idle
    /\ presetName = Idle /\ typographyProps = Idle
    /\ captions = Idle

CallSecondsToFrames ==
    /\ tRet' = [fn |-> "secondsToFrames",
                value |-> secondsToFrames(tArgs.seconds, tArgs.fps)]
    /\ UNCHANGED <<tArgs, shotList, preset, fps, frame, out, presetName,
                   typographyProps, captions>>

CallDurationInFrames ==
    /\ tRet' = [fn |-> "durationInFrames",
                value |-> durationInFrames(tArgs.startTime, tArgs.endTime,
                                           tArgs.fps)]
    /\ UNCHANGED <<tArgs, shotList, preset, fps, frame, out, presetName,
                   typographyProps, captions>>

\* The frame number secondsToFrames returned, converted back.
CallFramesToSeconds ==
    /\ tRet.fn = "secondsToFrames"
    /\ tRet' = [fn |-> "framesToSeconds", frames |-> tRet.value,
                value |-> framesToSeconds(tRet.value, tArgs.fps)]
    /\ UNCHANGED <<tArgs, shotList, preset, fps, frame, out, presetName,
                   typographyProps, captions>>

NextTiming ==
    CallSecondsToFrames \/ CallDurationInFrames \/ CallFramesToSeconds

SpecTiming == InitTiming /\ [][NextTiming]_vars

----------------------------------------------------------------------------
(* The shot lists the composition is evaluated on *)

MaxScenes == 2      \* scenes per clip
MaxFrame == 9      \* the host asks for frames 0..MaxFrame

RECURSIVE SetToSeq(_)
SetToSeq(S) ==
    IF S = {} THEN <<>>
    ELSE LET m == CHOOSE x \in S : \A y \in S : x <= y
         IN  <<m>> \o SetToSeq(S \ {m})

\* Time-ordered, non-overlapping scene windows in ticks, each at least one
\* tick long: contiguous ones (each scene ends where the next starts) and
\* ones separated by gaps.
CutSets(k) == {S \in SUBSET Ticks : Cardinality(S) = k}

Contiguous ==
    {<<>> \o [i \in 1..(Len(c) - 1) |-> [startTime |-> c[i], endTime |-> c[i + 1]]] :
        c \in {SetToSeq(S) : S \in UNION {CutSets(k) : k \in 2..(MaxScenes + 1)}}}

Gapped ==
    {<<>> \o [i \in 1..(Len(c) \div 2) |->
        [startTime |-> c[2 * i - 1], endTime |-> c[2 * i]]] :
        c \in {SetToSeq(S) : S \in UNION {CutSets(2 * n) : n \in 2..MaxScenes}}}

Layouts == Contiguous \cup Gapped

\* A caller-supplied preset with a short quick-cut.
shortCut ==
    [name |-> "short-cut",
     typographyDefaults |-> [fontSize |-> 60, color |-> "#FFFFFF"],
     transitionDefaults |->
         [type |-> "quick-cut", durationFrames |-> 2, flashColor |-> "#FFFFFF"],
     colorScheme |-> [accent |-> "#FFD700", highlight |-> "#FFD700"]]

Treatments ==
    {"plain", "zoom", "spring-pan", "quick-cut", "short-cut", "fade",
     "typography", "broll", "layered"}

PresetOf(treatment) ==
    CASE treatment = "quick-cut" -> boldImpact
      [] treatment = "short-cut" -> shortCut
      [] treatment = "fade" -> cleanMinimal
      [] treatment = "typography" -> neonGlow
      [] OTHER -> viralPopup

\* Scene i of a clip under a treatment, over the window w.
SceneOf(treatment, i, w) ==
    [startTime |-> w.startTime,
     endTime |-> w.endTime,
     camera |-> "main",
     focusX |-> IF i % 2 = 0 THEN <<<<1, 5>>>>
                ELSE IF treatment = "zoom" THEN <<<<3, 10>>>> ELSE <<>>,
     focusY |-> IF i % 2 = 0 THEN <<<<4, 5>>>>
                ELSE IF treatment = "zoom" THEN <<<<3, 5>>>> ELSE <<>>,
     zoom |-> CASE treatment = "zoom" ->
                      <<[from |-> <<1, 1>>, to |-> <<11, 10>>,
                         easing |-> "slow"]>>
                [] treatment = "spring-pan" ->
                      <<[from |-> <<1, 1>>, to |-> <<23, 20>>,
                         easing |-> "spring"]>>
                [] OTHER -> <<>>,
     pan |-> IF treatment = "spring-pan"
             THEN <<[direction |-> IF i % 2 = 0 THEN "up" ELSE "left",
                     amount |-> 100, easing |-> "slow"]>>
             ELSE <<>>,
     typography |->
         IF treatment \in {"typography", "layered"}
         THEN <<[text |-> IF i % 2 = 0 THEN <<"g", "o", " ", "o", "n">>
                          ELSE <<"G", "O">>,
                 style |-> IF i % 2 = 0 THEN "word-by-word" ELSE "glow-reveal",
                 enterAt |-> w.startTime,
                 exitAt |-> w.endTime,
                 color |-> IF i % 2 = 0 THEN None ELSE "#00FF88",
                 fontSize |-> <<>>]>>
         ELSE <<>>,
     broll |-> IF treatment \in {"broll", "layered"}
               THEN <<[src |-> "broll.mp4", enterAt |-> w.startTime,
                       exitAt |-> w.endTime, opacity |-> <<>>]>>
               ELSE <<>>,
     transition |-> CASE treatment \in {"quick-cut", "short-cut"} -> "quick-cut"
                      [] treatment = "fade" -> "fade"
                      [] treatment = "zoom" -> "cut"
                      [] treatment = "spring-pan" -> "none"
                      [] OTHER -> None]

ClipOf(treatment, layout) ==
    [startTime |-> 0,
     endTime |-> layout[Len(layout)].endTime,
     scenes |-> <<>> \o [i \in 1..Len(layout) |->
                            SceneOf(treatment, i, layout[i])],
     captions |-> [style |-> "viral-popup", emphasizeWords |-> <<>>,
                   fontSize |-> <<>>, color |-> None],
     score |-> 95]

\* A second clip of a shot list: one scene with typography over every tick,
\* and caption settings of its own.
SecondClip ==
    [ClipOf("typography", <<[startTime |-> 0, endTime |-> MaxTick]>>)
        EXCEPT !.captions.style = "bold-impact"]

\* Caption segments supplied with a two-clip shot list: one word over every
\* tick.
TwoClipCaptions ==
    <<[text |-> <<"G", "o">>, startTime |-> 0, endTime |-> MaxTick,
       words |-> <<[text |-> <<"G", "o">>, startTime |-> 0,
                    endTime |-> MaxTick]>>]>>

\* A shot list with no clip renders an empty frame.
EmptyShotList == [title |-> "Preview", mood |-> "energetic", clips |-> <<>>]

Init ==
    /\ tArgs = Idle /\ tRet = Idle
    /\ fps \in FpsSet
    /\ \/ \E tr \in Treatments, layout \in Layouts :
             /\ shotList = [title |-> "Preview", mood |-> "energetic",
                            clips |-> <<ClipOf(tr, layout)>>]
             /\ preset = PresetOf(tr)
             /\ captions = <<>>
       \/ \E tr \in Treatments, layout \in Layouts :
             /\ shotList = [title |-> "Preview", mood |-> "energetic",
                            clips |-> <<ClipOf(tr, layout), SecondClip>>]
             /\ preset = PresetOf(tr)
             /\ captions = TwoClipCaptions
       \/ shotList = EmptyShotList /\ preset = viralPopup /\ captions = <<>>
    /\ frame = 0 - 1
    /\ out = [kind |-> "idle"]
    /\ presetName = Idle /\ typographyProps = Idle

\* The host asks for a frame, in any order.
RenderFrame(f) ==
    /\ frame' = f
    /\ out' = ClipComposition(shotList, captions, preset, fps, f)
    /\ UNCHANGED <<tArgs, tRet, shotList, preset, fps, presetName,
                   typographyProps, captions>>

Next == \E f \in 0..MaxFrame : RenderFrame(f)

Spec == Init /\ [][Next]_vars

----------------------------------------------------------------------------
(* Claims *)

\* C2: durationInFrames(startTime, endTime, fps) equals
\* max(1, round((endTime - startTime) * fps)) and is at least 1 for every
\* input with fps > 0, also when endTime = startTime, when endTime <
\* startTime and when the difference rounds to 0.  The rounded product is
\* stated here by its defining inequality, not by the model's operator.
C2_DurationAtLeastOne ==
    tRet.fn = "durationInFrames" =>
        LET x == (tArgs.endTime - tArgs.startTime) * tArgs.fps  \* in 1/TimeDen
            r == CHOOSE k \in (0 - MaxTick * MaxFps)..(MaxTick * MaxFps) :
                    /\ 2 * k * TimeDen <= 2 * x + TimeDen
                    /\ 2 * x + TimeDen < 2 * (k + 1) * TimeDen
        IN  /\ tRet.value >= 1
            /\ tRet.value = IF r >= 1 THEN r ELSE 1

\* C2 witness: a call whose difference is negative or rounds to 0, and one
\* frame came back.
C2_Witness ==
    /\ tRet.fn = "durationInFrames"
    /\ tArgs.endTime < tArgs.startTime
    /\ tRet.value = 1

\* The product seconds * fps of the call, in units of 1/TimeDen frame.
C4_Product == tArgs.seconds * tArgs.fps

C4_IsTie == (2 * C4_Product) % (2 * TimeDen) = TimeDen

C4_Nearest(r) == 2 * Abs(r * TimeDen - C4_Product) <= TimeDen

\* C4 as claimed: secondsToFrames returns the integer nearest to
\* seconds * fps and resolves an exact .5 tie by round-half-away-from-zero
\* or by round-half-to-even, negative products included.
C4_HalfAwayOrHalfEven ==
    tRet.fn = "secondsToFrames" =>
        /\ C4_Nearest(tRet.value)
        /\ C4_IsTie =>
              \/ Abs(tRet.value) * TimeDen > Abs(C4_Product)
              \/ tRet.value % 2 = 0

\* C4 as amended: secondsToFrames returns the integer nearest to
\* seconds * fps and resolves every exact .5 tie toward +Infinity (2.5 -> 3,
\* -1.5 -> -1, -0.5 -> 0), which is half-away-from-zero only for products
\* that are not negative.
C4_TiesTowardPlusInfinity ==
    tRet.fn = "secondsToFrames" =>
        /\ C4_Nearest(tRet.value)
        /\ C4_IsTie => tRet.value * TimeDen > C4_Product

\* C4 witness: a negative product at an exact tie has been rounded.
C4_Witness ==
    /\ tRet.fn = "secondsToFrames"
    /\ C4_Product < 0
    /\ C4_IsTie

----------------------------------------------------------------------------
(* presets/index.ts: getPreset, and a typography layer rendered with it *)

\* The own keys of the presets object.
presets ==
    ("viral-popup" :> viralPopup) @@ ("clean-minimal" :> cleanMinimal)
        @@ ("bold-impact" :> boldImpact) @@ ("neon-glow" :> neonGlow)

\* presets is an object literal: a key it does not own is looked up on
\* Object.prototype, whose members are all truthy.
ObjectPrototypeKeys ==
    {"constructor", "toString", "valueOf", "hasOwnProperty", "__proto__"}

UnknownPreset(name) == Raised(<<"Unknown preset", name>>)

\* presets[name]: the own value, the inherited member, or undefined.
Lookup(name) ==
    IF name \in DOMAIN presets THEN presets[name]
    ELSE IF name \in ObjectPrototypeKeys
         THEN [kind |-> "inherited", key |-> name]
    ELSE [kind |-> None]

\* A Preset and an inherited member are truthy, undefined is falsy.
Truthy(v) == IF IsPreset(v) THEN TRUE ELSE v.kind # None

\* Throws only when presets[name] is falsy.
getPreset(name) ==
    IF Truthy(Lookup(name)) THEN Lookup(name) ELSE UnknownPreset(name)

PresetNames ==
    DOMAIN presets \cup {"retro", "", "constructor", "__proto__"}

MaxEnter == 1       \* a typography enters at tick 0..MaxEnter

Styles == {"kinetic-slam", "word-by-word", "glow-reveal", "bounce-in"}

\* Typography props: with both color and fontSize given, or with neither.
Typographies ==
    {[text |-> IF style = "word-by-word" THEN <<"g", "o", " ", "o", "n">>
               ELSE <<"G", "O">>,
      style |-> style,
      enterAt |-> enterAt,
      exitAt |-> exitAt,
      color |-> IF own THEN "#00FF88" ELSE None,
      fontSize |-> IF own THEN <<72>> ELSE <<>>] :
        style \in Styles, enterAt \in 0..MaxEnter, exitAt \in Ticks,
        own \in BOOLEAN}

InitTypography ==
    /\ tArgs = Idle /\ tRet = Idle /\ shotList = Idle
    /\ fps \in FpsSet
    /\ typographyProps \in Typographies
    /\ presetName = None
    /\ preset = [kind |-> "unset"]
    /\ frame = 0 - 1
    /\ out = [kind |-> "idle"]
    /\ captions = Idle

\* The caller resolves a preset by name.
SelectPreset(name) ==
    /\ presetName' = name
    /\ preset' = getPreset(name)
    /\ UNCHANGED <<tArgs, tRet, shotList, fps, frame, out, typographyProps,
                   captions>>

\* With the value getPreset returned, the typography of a scene starting at
\* 0 is rendered at a frame.  Nothing is rendered when getPreset threw.
RenderTypography(f) ==
    /\ IF IsPreset(preset) THEN TRUE ELSE preset.kind = "inherited"
    /\ frame' = f
    /\ out' = TypographyRenderer(typographyProps, 0, fps, preset, f)
    /\ UNCHANGED <<tArgs, tRet, shotList, preset, fps, presetName,
                   typographyProps, captions>>

NextTypography ==
    \/ \E name \in PresetNames : SelectPreset(name)
    \/ \E f \in 0..MaxFrame : RenderTypography(f)

SpecTypography == InitTypography /\ [][NextTypography]_vars

----------------------------------------------------------------------------
(* A one-scene clip rendered with caption segments *)

\* The four known styles and a tag outside them.
CaptionStyles ==
    {"viral-popup", "clean-minimal", "bold-impact", "neon-glow", "karaoke"}

EmphasizeLists == {<<>>, <<<<"G", "O">>>>, <<<<"O", "n">>, <<"u", "p">>>>}

\* Two words over the cuts c: back to back in one segment (three cuts),
\* or apart, in one segment or in two (four cuts).
WordsOver(c) ==
    IF Len(c) = 3
    THEN <<[text |-> <<"G", "o">>, startTime |-> c[1], endTime |-> c[2]],
           [text |-> <<"o", "n">>, startTime |-> c[2], endTime |-> c[3]]>>
    ELSE <<[text |-> <<"G", "o">>, startTime |-> c[1], endTime |-> c[2]],
           [text |-> <<"o", "n">>, startTime |-> c[3], endTime |-> c[4]]>>

OneSegment(words) ==
    <<[text |-> <<"G", "o", " ", "o", "n">>,
       startTime |-> words[1].startTime,
       endTime |-> words[Len(words)].endTime,
       words |-> words]>>

SegmentPerWord(words) ==
    <<>> \o [i \in DOMAIN words |->
        [text |-> words[i].text, startTime |-> words[i].startTime,
         endTime |-> words[i].endTime, words |-> <<words[i]>>]]

CaptionCuts ==
    {SetToSeq(S) : S \in {T \in CutSets(3) \cup CutSets(4) :
                            \E t \in T : t <= MaxEnter}}

CaptionSegments ==
    {OneSegment(WordsOver(c)) : c \in CaptionCuts}
    \cup {SegmentPerWord(WordsOver(c)) : c \in {d \in CaptionCuts : Len(d) = 4}}

InitCaption ==
    /\ tArgs = Idle /\ tRet = Idle
    /\ presetName = Idle /\ typographyProps = Idle
    /\ fps \in FpsSet
    /\ preset = viralPopup
    /\ captions \in CaptionSegments
    /\ \E style \in CaptionStyles, words \in EmphasizeLists,
          color \in {None, "#FF00FF"} :
          shotList =
              [title |-> "Preview", mood |-> "energetic",
               clips |-> <<[ClipOf("plain",
                                   <<[startTime |-> 0, endTime |-> MaxTick]>>)
                            EXCEPT !.captions =
                                [style |-> style, emphasizeWords |-> words,
                                 fontSize |-> IF color = None THEN <<>>
                                              ELSE <<40>>,
                                 color |-> color]]>>]
    /\ frame = 0 - 1
    /\ out = [kind |-> "idle"]

NextCaption == \E f \in 0..MaxFrame : RenderFrame(f)

SpecCaption == InitCaption /\ [][NextCaption]_vars

----------------------------------------------------------------------------
(* Frame-range and caption utilities applied to drawn arguments *)

MaxSpan == 3        \* entry times run over ticks 0..MaxSpan

\* Entries with startTime < endTime over ticks 0..MaxSpan, as words and as
\* one-word segments.
TimedWord(span) == [text |-> <<"g", "o">>, startTime |-> span[1], endTime |-> span[2]]

\* Spans <<startTime, endTime>> with startTime < endTime.
Spans == UNION {{<<s, e>> : e \in (s + 1)..MaxSpan} : s \in 0..MaxSpan}

\* Lists of at most two words, in any order, overlapping or apart.
WordLists ==
    {<<>>} \cup {<<TimedWord(p)>> : p \in Spans}
        \cup {<<TimedWord(p), TimedWord(q)>> : p \in Spans, q \in Spans}

\* One segment per word, over the same span.
AsSegments(words) ==
    <<>> \o [i \in DOMAIN words |->
        [text |-> words[i].text, startTime |-> words[i].startTime,
         endTime |-> words[i].endTime, words |-> <<words[i]>>]]

SegmentLists == {AsSegments(words) : words \in WordLists}

\* Query times: every half tick from 0 to one tick past MaxSpan.
TimePoints == {Frac(h, 2) : h \in 0..(2 * MaxSpan + 2)}

\* lib/timing.ts: groupWordsIntoSegments.  The loop index i advances by
\* maxWordsPerSegment; words.slice(i, i + m) is entries i+1 .. min(i+m, n).
MAX_WORDS_PER_SEGMENT == 6

Chunk(words, i, m) == SubSeq(words, i + 1, Min(i + m, Len(words)))

SegmentOf(chunk) == [words |-> chunk, startTime |-> chunk[1].startTime, endTime |-> chunk[Len(chunk)].endTime]

RECURSIVE GroupFrom(_, _, _)
GroupFrom(words, m, i) == IF i < Len(words) THEN <<SegmentOf(Chunk(words, i, m))>> \o GroupFrom(words, m, i + m) ELSE <<>>

\* A variant that keeps only the chunks of exactly m words.
groupFullChunksOnly(words, maxWordsPerSegment) ==
    SelectSeq(GroupFrom(words, maxWordsPerSegment, 0),
              LAMBDA seg : Len(seg.words) = maxWordsPerSegment)

groupWordsIntoSegments(words, maxWordsPerSegment) ==
    GroupFrom(words, maxWordsPerSegment, 0)

\* Runs of up to MaxWords words, one tick each, abutting or one tick apart.
MaxWords == 9
MaxPerSegment == 7

WordRun(n, gap) == <<>> \o [k \in 1..n |-> [text |-> <<"g", "o">>, startTime |-> (k - 1) * (1 + gap), endTime |-> (k - 1) * (1 + gap) + 1]]

WordRuns == {WordRun(n, gap) : n \in 0..MaxWords, gap \in 0..1}

\* The optional maxWordsPerSegment argument: omitted, or a count >= 1.
PerSegmentArgs == {<<>>} \cup {<<m>> : m \in 1..MaxPerSegment}

\* lib/timing.ts: parseTranscriptToWords.  split(/\s+/).filter(Boolean)
\* drops the empty tokens; times are in ticks, word times exact fractions.
RawWords(transcript) == SelectSeq(SplitWhitespace(transcript), LAMBDA token : token # <<>>)

EvenlyTimed(rawWords, startTime, endTime) == <<>> \o [k \in 1..Len(rawWords) |-> [text |-> rawWords[k], startTime |-> FAdd(FInt(startTime), FMul(FInt(k - 1), Frac(endTime - startTime, Len(rawWords)))), endTime |-> FAdd(FInt(startTime), FMul(FInt(k), Frac(endTime - startTime, Len(rawWords))))]]

\* A variant without filter(Boolean).
parseTranscriptKeepingEmptyTokens(transcript, startTime, endTime) ==
    EvenlyTimed(SplitWhitespace(transcript), startTime, endTime)

parseTranscriptToWords(transcript, startTime, endTime) ==
    IF Len(RawWords(transcript)) = 0 THEN <<>>
    ELSE EvenlyTimed(RawWords(transcript), startTime, endTime)

\* Transcripts: empty, whitespace only, one to three words, with leading,
\* trailing and repeated spaces.
Transcripts ==
    {<<>>, <<" ">>, <<" ", " ">>, <<"a">>, <<"a", "b">>, <<" ", "a">>,
     <<"a", " ">>, <<"a", " ", "b">>, <<"a", " ", " ", "b">>,
     <<" ", "a", " ", "b", " ">>, <<"a", " ", "b", " ", "c">>}

\* lib/timing.ts: clamp, getProgress, isInRange.  Frames are whole numbers,
\* progress an exact fraction.
clamp(value, min, max) == LET lower == IF FLess(value, min) THEN min ELSE value IN IF FLess(max, lower) THEN max ELSE lower

\* A variant without the clamp.
getProgressUnclamped(currentFrame, startFrame, durationFrames) ==
    IF durationFrames <= 0 THEN FInt(0)
    ELSE Frac(currentFrame - startFrame, durationFrames)

getProgress(currentFrame, startFrame, durationFrames) ==
    IF durationFrames <= 0 THEN FInt(0)
    ELSE clamp(Frac(currentFrame - startFrame, durationFrames),
               FInt(0), FInt(1))

\* A variant whose range is closed at its end.
isInRangeClosed(currentFrame, startFrame, durationFrames) ==
    currentFrame >= startFrame /\ currentFrame <= startFrame + durationFrames

isInRange(currentFrame, startFrame, durationFrames) ==
    currentFrame >= startFrame /\ currentFrame < startFrame + durationFrames

\* Frames before, inside and after every range; durations from -1.
MaxRange == 3
CurrentFrames == (0 - 1)..(2 * MaxRange + 1)
StartFrames == 0..MaxRange
DurationFrames == (0 - 1)..MaxRange

\* null is <<>>, a found entry e is <<e>>.
Found(items, idx) == IF idx = 0 THEN <<>> ELSE <<items[idx]>>

InitUtilities ==
    /\ tArgs = [fn |-> None]
    /\ tRet = [fn |-> None]
    /\ shotList = Idle /\ preset = Idle /\ fps = Idle
    /\ frame = Idle /\ out = Idle
    /\ presetName = Idle /\ typographyProps = Idle
    /\ captions = Idle

CallGetActiveWord(words, t) ==
    /\ tArgs' = [fn |-> "getActiveWord", items |-> words, t |-> t]
    /\ tRet' = [fn |-> "getActiveWord",
                value |-> Found(words, getActiveWord(words, t))]
    /\ UNCHANGED <<shotList, preset, fps, frame, out, presetName,
                   typographyProps, captions>>

CallGetActiveSegment(segments, t) ==
    /\ tArgs' = [fn |-> "getActiveSegment", items |-> segments, t |-> t]
    /\ tRet' = [fn |-> "getActiveSegment",
                value |-> Found(segments, getActiveSegment(segments, t))]
    /\ UNCHANGED <<shotList, preset, fps, frame, out, presetName,
                   typographyProps, captions>>

CallGroupWordsIntoSegments(words, maxArg) ==
    /\ tArgs' = [fn |-> "groupWordsIntoSegments", words |-> words,
                 m |-> IF maxArg = <<>> THEN MAX_WORDS_PER_SEGMENT
                       ELSE maxArg[1]]
    /\ tRet' = [fn |-> "groupWordsIntoSegments",
                value |-> groupWordsIntoSegments(words,
                             IF maxArg = <<>> THEN MAX_WORDS_PER_SEGMENT
                             ELSE maxArg[1])]
    /\ UNCHANGED <<shotList, preset, fps, frame, out, presetName,
                   typographyProps, captions>>

CallParseTranscriptToWords(transcript, startTime, endTime) ==
    /\ tArgs' = [fn |-> "parseTranscriptToWords", transcript |-> transcript,
                 startTime |-> startTime, endTime |-> endTime]
    /\ tRet' = [fn |-> "parseTranscriptToWords",
                value |-> parseTranscriptToWords(transcript, startTime,
                                                 endTime)]
    /\ UNCHANGED <<shotList, preset, fps, frame, out, presetName,
                   typographyProps, captions>>

CallIsInRange(currentFrame, startFrame, durationFrames) ==
    /\ tArgs' = [fn |-> "isInRange", currentFrame |-> currentFrame,
                 startFrame |-> startFrame,
                 durationFrames |-> durationFrames]
    /\ tRet' = [fn |-> "isInRange",
                value |-> isInRange(currentFrame, startFrame,
                                    durationFrames)]
    /\ UNCHANGED <<shotList, preset, fps, frame, out, presetName,
                   typographyProps, captions>>

CallGetProgress(currentFrame, startFrame, durationFrames) ==
    /\ tArgs' = [fn |-> "getProgress", currentFrame |-> currentFrame,
                 startFrame |-> startFrame,
                 durationFrames |-> durationFrames]
    /\ tRet' = [fn |-> "getProgress",
                value |-> getProgress(currentFrame, startFrame,
                                      durationFrames)]
    /\ UNCHANGED <<shotList, preset, fps, frame, out, presetName,
                   typographyProps, captions>>

NextUtilities ==
    \/ \E words \in WordLists, t \in TimePoints : CallGetActiveWord(words, t)
    \/ \E segments \in SegmentLists, t \in TimePoints :
          CallGetActiveSegment(segments, t)
    \/ \E words \in WordRuns, maxArg \in PerSegmentArgs :
          CallGroupWordsIntoSegments(words, maxArg)
    \/ \E transcript \in Transcripts, startTime \in 0..MaxSpan, endTime \in 0..MaxSpan :
          CallParseTranscriptToWords(transcript, startTime, endTime)
    \/ \E c \in CurrentFrames, st \in StartFrames, d \in DurationFrames :
          CallIsInRange(c, st, d)
    \/ \E c \in CurrentFrames, st \in StartFrames, d \in DurationFrames :
          CallGetProgress(c, st, d)

SpecUtilities == InitUtilities /\ [][NextUtilities]_vars

----------------------------------------------------------------------------
(* One scene with typography, mounted in its Sequence *)

\* The four known style tags and a tag outside them.
TypographyStyles == Styles \cup {"marquee"}

\* Scene windows that start at, and after, the start of the clip.
SceneWindows ==
    {[startTime |-> 0, endTime |-> 3], [startTime |-> 1, endTime |-> 4],
     [startTime |-> 2, endTime |-> MaxTick]}

\* The text may enter before the scene starts and leave after it ends.
SceneTypographies ==
    {[text |-> <<"g", "o", " ", "o", "n">>,
      style |-> style,
      enterAt |-> enterAt,
      exitAt |-> exitAt,
      color |-> "#00FF88",
      fontSize |-> <<72>>] :
        style \in TypographyStyles, enterAt \in 0..3,
        exitAt \in {t \in Ticks : t >= 1}}

\* A clip of one scene over the window w, with the typography ty.
TypographyClip(w, ty) ==
    [startTime |-> 0,
     endTime |-> w.endTime,
     scenes |-> <<[SceneOf("plain", 1, w) EXCEPT !.typography = <<ty>>]>>,
     captions |-> [style |-> "viral-popup", emphasizeWords |-> <<>>,
                   fontSize |-> <<>>, color |-> None],
     score |-> 95]

TypographyClips ==
    {TypographyClip(w, ty) : w \in SceneWindows,
        ty \in {t \in SceneTypographies : t.exitAt >= t.enterAt}}

InitScene ==
    /\ tArgs \in TypographyClips
    /\ fps \in FpsSet
    /\ preset = viralPopup
    /\ tRet = Idle /\ shotList = Idle
    /\ presetName = Idle /\ typographyProps = Idle /\ captions = Idle
    /\ frame = 0 - 1
    /\ out = [kind |-> "idle"]

\* The scene's Sequence at a frame of the clip.
RenderScene(f) ==
    /\ frame' = f
    /\ out' = SceneLayers(tArgs, preset, fps, f, 1)
    /\ UNCHANGED <<tArgs, tRet, shotList, preset, fps, presetName,
                   typographyProps, captions>>

NextScene == \E f \in 0..MaxFrame : RenderScene(f)

SpecScene == InitScene /\ [][NextScene]_vars

----------------------------------------------------------------------------
(* remotion spring() evaluated with the presets of lib/spring-configs.ts *)

\* mass is held in tenths.
springConfigs ==
    [bouncy |-> [damping |-> 8, massTenths |-> 6, stiffness |-> 200, overshootClamping |-> FALSE],
     smooth |-> [damping |-> 20, massTenths |-> 10, stiffness |-> 100, overshootClamping |-> FALSE],
     snappy |-> [damping |-> 14, massTenths |-> 4, stiffness |-> 300, overshootClamping |-> FALSE],
     slow |-> [damping |-> 30, massTenths |-> 15, stiffness |-> 60, overshootClamping |-> FALSE],
     critical |-> [damping |-> 18, massTenths |-> 10, stiffness |-> 150, overshootClamping |-> TRUE]]

\* Reals are fixed-point numbers: the integer n stands for n / Scale.  sin,
\* cos and exp are summed from their power series over SeriesTerms terms.
Scale == 5000
SeriesTerms == 8

FxMul(a, b) == (a * b) \div Scale

FxDiv(a, b) == (a * Scale) \div b

RECURSIVE SqrtBetween(_, _, _)
SqrtBetween(n, lo, hi) == IF hi - lo <= 1 THEN lo ELSE IF ((lo + hi) \div 2) * ((lo + hi) \div 2) <= n THEN SqrtBetween(n, (lo + hi) \div 2, hi) ELSE SqrtBetween(n, lo, (lo + hi) \div 2)

\* The whole part of the square root of n < 2^31.
ISqrt(n) == SqrtBetween(n, 0, 46341)

\* sum + term - term*x2/(n(n+1)) + ... : the sine series from term = x,
\* n = 2, the cosine series from term = 1, n = 1, both with x2 = x * x.
RECURSIVE TrigSeries(_, _, _, _, _)
TrigSeries(term, x2, n, sum, left) == IF left = 0 THEN sum ELSE TrigSeries((0 - FxMul(term, x2)) \div (n * (n + 1)), x2, n + 2, sum + term, left - 1)

FxSin(x) == TrigSeries(x, FxMul(x, x), 2, 0, SeriesTerms)

FxCos(x) == TrigSeries(Scale, FxMul(x, x), 1, 0, SeriesTerms)

\* exp(-x) for x >= 0.
RECURSIVE ExpSeries(_, _, _, _, _)
ExpSeries(term, x, n, sum, left) == IF left = 0 THEN sum ELSE ExpSeries((0 - FxMul(term, x)) \div n, x, n + 1, sum + term, left - 1)

FxExpNeg(x) == ExpSeries(Scale, x, 1, 0, 2 * SeriesTerms)

\* zeta = c / (2 sqrt(k m)) < 1, in whole numbers.
UnderDamped(config) == config.damping * config.damping * 10 < 4 * config.stiffness * config.massTenths

\* omega0 = sqrt(k / m), zeta * omega0 = c / (2m), and
\* omega1 = omega0 * sqrt(1 - zeta^2) = sqrt(k/m - (c/2m)^2); the roots are
\* taken in thousandths.
Omega0(config) == (ISqrt(((config.stiffness * 1000000) \div config.massTenths) * 10) * Scale) \div 1000

ZetaOmega0(config) == (5 * config.damping * Scale) \div config.massTenths

Omega1(config) == (ISqrt(((config.stiffness * 1000000) \div config.massTenths) * 10 - ((5000 * config.damping) \div config.massTenths) * ((5000 * config.damping) \div config.massTenths)) * Scale) \div 1000

\* advance(): the spring moved on by t seconds from position current and
\* velocity velocity toward 1, by the closed form of the under-damped
\* oscillator when zeta < 1 and of the critically damped one otherwise.
UnderDampedStep(x0, v0, zw, w1, sin1, cos1, envelope) ==
    [current |-> Scale - FxMul(envelope, FxMul(sin1, FxDiv(v0 + FxMul(zw, x0), w1)) + FxMul(x0, cos1)),
     velocity |-> FxMul(zw, FxMul(envelope, FxMul(sin1, FxDiv(v0 + FxMul(zw, x0), w1)) + FxMul(x0, cos1)))
                  - FxMul(envelope, FxMul(cos1, v0 + FxMul(zw, x0)) - FxMul(w1, FxMul(x0, sin1)))]

CriticallyDampedStep(x0, v0, w0, t, envelope) ==
    [current |-> Scale - FxMul(envelope, x0 + FxMul(v0 + FxMul(w0, x0), t)),
     velocity |-> FxMul(envelope, FxMul(v0, FxMul(t, w0) - Scale) + FxMul(FxMul(FxMul(t, x0), w0), w0))]

Advance(animation, t, config) ==
    IF UnderDamped(config)
    THEN UnderDampedStep(Scale - animation.current, 0 - animation.velocity,
                         ZetaOmega0(config), Omega1(config),
                         FxSin(FxMul(Omega1(config), t)),
                         FxCos(FxMul(Omega1(config), t)),
                         FxExpNeg(FxMul(ZetaOmega0(config), t)))
    ELSE CriticallyDampedStep(Scale - animation.current, 0 - animation.velocity,
                              Omega0(config), t,
                              FxExpNeg(FxMul(Omega0(config), t)))

\* One step per frame: the time between frames, at most 64 ms.
StepTime(fps_) == Min(MathRound(Scale, fps_), (64 * Scale) \div 1000)

\* One turn of the loop of springCalculation(), which advances the spring
\* once per frame 0..frame; the advance at frame 0 covers no time.
springCalculation(animation, f, fps_, config) == Advance(animation, IF f = 0 THEN 0 ELSE StepTime(fps_), config)

\* The spring at rest at 0, before the loop.
SpringAtRest == [current |-> 0, velocity |-> 0]

\* A variant that ignores overshootClamping.
springUnclamped(current, config) == current

\* spring({frame, fps, config}) from 0 to 1: the position the loop ends
\* at, held at 1 under overshootClamping.
spring(current, config) == IF config.overshootClamping THEN Min(current, Scale) ELSE current

MaxElapsed == 12    \* elapsed frames 0..MaxElapsed

\* The frame rates of the model and the rate of an exported video.
SpringFps == FpsSet \cup {30}

\* The loop of springCalculation() is followed turn by turn: out holds the
\* animation after the turn of frame `frame`, the progress spring() returns
\* for that frame, and the greatest progress returned so far.
SpringProgress(animation, config, peak) ==
    [kind |-> "progress",
     animation |-> animation,
     value |-> spring(animation.current, config),
     peak |-> Max(peak, spring(animation.current, config))]

InitSpring ==
    /\ tArgs \in [config : DOMAIN springConfigs, fps : SpringFps]
    /\ tRet = Idle /\ shotList = Idle /\ preset = Idle /\ fps = Idle
    /\ presetName = Idle /\ typographyProps = Idle /\ captions = Idle
    /\ frame = 0 - 1
    /\ out = [kind |-> "idle"]

SpringNextFrame ==
    /\ frame < MaxElapsed
    /\ frame' = frame + 1
    /\ out' = SpringProgress(springCalculation(IF frame < 0 THEN SpringAtRest ELSE out.animation,
                                               frame + 1, tArgs.fps,
                                               springConfigs[tArgs.config]),
                             springConfigs[tArgs.config],
                             IF frame < 0 THEN 0 ELSE out.peak)
    /\ UNCHANGED <<tArgs, tRet, shotList, preset, fps, presetName,
                   typographyProps, captions>>

NextSpring == SpringNextFrame

SpecSpring == InitSpring /\ [][NextSpring]_vars

----------------------------------------------------------------------------
(* One effect component mounted on its own, rendered frame by frame *)

MaxWindow == 14     \* effect windows of 0..MaxWindow frames
LongWindow == 70    \* and one window long enough for ten-frame fades

Components ==
    {"ZoomPush", "PanSweep", "PanSweepHorizontal", "QuickCut", "BrollOverlay",
     "KineticSlam", "GlowReveal", "BounceIn", "WordByWord", "CaptionOverlay"}

ZoomProps ==
    {[from |-> r[1], to |-> r[2], easing |-> e] :
        r \in {<<<<1, 1>>, <<11, 10>>>>, <<<<6, 5>>, <<1, 1>>>>},
        e \in {"slow", "fast", "linear", "spring"}}

PanProps ==
    {[direction |-> d, amount |-> a, easing |-> "slow"] :
        d \in {"left", "right", "up", "down"}, a \in {40, 100}}

OpacityProps == {<<>>, <<3, 10>>}

\* The props of one mounted component; a prop the component does not take
\* is left at a fixed value.
EffectProps ==
    {[component |-> c, startFrame |-> st, durationInFrames |-> d,
      zoom |-> z, pan |-> p, opacity |-> o] :
        c \in Components, st \in {0, 2},
        d \in (0..MaxWindow) \cup {LongWindow},
        z \in ZoomProps, p \in PanProps, o \in OpacityProps}

EffectPropsUsed ==
    {e \in EffectProps :
        /\ e.component # "ZoomPush" => e.zoom = [from |-> <<1, 1>>, to |-> <<11, 10>>, easing |-> "slow"]
        /\ e.component \notin {"PanSweep", "PanSweepHorizontal"} => e.pan = [direction |-> "left", amount |-> 100, easing |-> "slow"]
        /\ e.component # "BrollOverlay" => e.opacity = <<>>}

EffectFrames ==
    (0..(MaxWindow + 3)) \cup ((LongWindow - 12)..(LongWindow + 3))

\* Words and caption segments handed to WordByWord and CaptionOverlay: two
\* words, the second starting a tick after the first ends.
EffectWords ==
    <<[text |-> <<"g", "o">>, startTime |-> FInt(0), endTime |-> FInt(1)],
      [text |-> <<"o", "n">>, startTime |-> FInt(2), endTime |-> FInt(4)]>>

EffectSegments ==
    <<[text |-> <<"g", "o", " ", "o", "n">>, startTime |-> 0, endTime |-> 4,
       words |-> <<[text |-> <<"g", "o">>, startTime |-> 0, endTime |-> 1],
                   [text |-> <<"o", "n">>, startTime |-> 2, endTime |-> 4]>>]>>

\* The component of props evaluated at frame f.
Mounted(props, fps_, f) ==
    CASE props.component = "ZoomPush" ->
             ZoomPush(f - props.startFrame, props.durationInFrames, props.zoom)
      [] props.component = "PanSweep" ->
             PanSweep(f - props.startFrame, props.durationInFrames, props.pan)
      [] props.component = "PanSweepHorizontal" ->
             PanSweepHorizontal(f - props.startFrame, props.durationInFrames,
                                props.pan)
      [] props.component = "QuickCut" ->
             QuickCut(f - props.startFrame, props.durationInFrames)
      [] props.component = "BrollOverlay" ->
             BrollOverlay(f - props.startFrame, props.durationInFrames,
                          props.opacity)
      [] props.component = "KineticSlam" ->
             KineticSlam(f - props.startFrame, props.durationInFrames)
      [] props.component = "GlowReveal" ->
             GlowReveal(f - props.startFrame, props.durationInFrames)
      [] props.component = "BounceIn" ->
             BounceIn(f - props.startFrame, props.durationInFrames)
      [] props.component = "WordByWord" ->
             WordByWord(EffectWords, f - props.startFrame,
                        props.durationInFrames, fps_)
      [] props.component = "CaptionOverlay" ->
             CaptionOverlay(EffectSegments, "viral-popup", <<>>,
                            props.startFrame, props.durationInFrames,
                            <<>>, None, fps_, f)

InitEffect ==
    /\ tArgs \in EffectPropsUsed
    /\ fps \in FpsSet
    /\ tArgs.component \notin {"WordByWord", "CaptionOverlay"} => fps = MinFps
    /\ tRet = Idle /\ shotList = Idle /\ preset = Idle
    /\ presetName = Idle /\ typographyProps = Idle /\ captions = Idle
    /\ frame = 0 - 1
    /\ out = [kind |-> "idle"]

RenderEffect(f) ==
    /\ frame' = f
    /\ out' = Mounted(tArgs, fps, f)
    /\ UNCHANGED <<tArgs, tRet, shotList, preset, fps, presetName,
                   typographyProps, captions>>

NextEffect == \E f \in EffectFrames : RenderEffect(f)

SpecEffect == InitEffect /\ [][NextEffect]_vars

----------------------------------------------------------------------------
(* QuickCut mounted on its own, rendered frame by frame *)

MaxCut == 10        \* quick-cut durations 0..MaxCut frames

QuickCutProps == [startFrame : 0..1, durationInFrames : 0..MaxCut]

InitQuickCut ==
    /\ tArgs \in QuickCutProps
    /\ tRet = Idle /\ shotList = Idle /\ preset = Idle /\ fps = Idle
    /\ presetName = Idle /\ typographyProps = Idle /\ captions = Idle
    /\ frame = 0 - 1
    /\ out = [kind |-> "idle"]

RenderQuickCut(f) ==
    /\ frame' = f
    /\ out' = QuickCut(f - tArgs.startFrame, tArgs.durationInFrames)
    /\ UNCHANGED <<tArgs, tRet, shotList, preset, fps, presetName,
                   typographyProps, captions>>

NextQuickCut == \E f \in 0..(MaxCut + 2) : RenderQuickCut(f)

SpecQuickCut == InitQuickCut /\ [][NextQuickCut]_vars

----------------------------------------------------------------------------
(* Claims about the composition *)

\* The clip being rendered, and its scene i.
TheClip == shotList.clips[1]

HasClip == Len(shotList.clips) > 0

\* C1: evaluating the composition at any frame never raises: with every
\* window at least one frame long, each interpolation returns a value.
C1_NeverRaises == ~IsRaised(out)

\* The scenes are time-ordered and do not overlap, in seconds.
C3_OrderedInSeconds ==
    \A i \in 1..Len(TheClip.scenes) :
        /\ TheClip.scenes[i].startTime < TheClip.scenes[i].endTime
        /\ i > 1 => TheClip.scenes[i - 1].endTime <= TheClip.scenes[i].startTime

\* C3: when the scenes are time-ordered and non-overlapping in seconds, the
\* layers of at most one scene are in the frame that was rendered.
C3_OneSceneVisible ==
    (HasClip /\ C3_OrderedInSeconds /\ out.kind = "frame") =>
        Cardinality({out.layers[k].scene : k \in DOMAIN out.layers} \ {0}) <= 1

\* The focus the blend schedule of the claim gives at the rendered frame:
\* the scene's own focus before the window and for the last scene, and
\* current + (next - current) * t in the window, t linear from 0 at the
\* window start (to 1 at the scene's last frame).
C6_Expected ==
    LET idx == currentSceneIndex(TheClip, fps, frame)
        cur == TheClip.scenes[idx]
        nxt == TheClip.scenes[idx + 1]
        d == SceneDuration(cur, fps)
        local == frame - SceneStart(TheClip, cur, fps)
        transitionFrames == Min(MathRound(fps, 2), MathFloor(d, 3))
        start == d - transitionFrames
        t == IF transitionFrames <= 1 THEN FInt(0)
             ELSE Frac(local - start, transitionFrames - 1)
        Blend(a, b) == FAdd(a, FMul(FSub(b, a), t))
    IN  IF idx < Len(TheClip.scenes) /\ local >= start
        THEN <<Blend(FocusOr(cur.focusX), FocusOr(nxt.focusX)),
               Blend(FocusOr(cur.focusY), FocusOr(nxt.focusY))>>
        ELSE <<FocusOr(cur.focusX), FocusOr(cur.focusY)>>

\* C6: at a frame inside a scene, the focus of the base video follows the
\* blend schedule: static before the window, linear blend inside it, static
\* for the last scene.
C6_FocusSchedule ==
    (HasClip /\ frame >= 0 /\ currentSceneIndex(TheClip, fps, frame) > 0) =>
        Focus(TheClip, fps, frame) = C6_Expected

\* The camera layers of scene i in the rendered frame.
C7_CameraLayers(i) ==
    {out.layers[k].layer : k \in {j \in DOMAIN out.layers :
                                    /\ out.layers[j].scene = i
                                    /\ out.layers[j].layer.kind = "camera"}}

\* C7: a scene without a transition tag, inside the preset's transition
\* window, carries the preset's default transition (quick-cut or fade).
C7_PresetDefaultApplies ==
    (HasClip /\ out.kind = "frame") =>
        \A i \in 1..Len(TheClip.scenes) :
            LET scene == TheClip.scenes[i]
                local == frame - SceneStart(TheClip, scene, fps)
            IN  (/\ SceneMounted(TheClip, scene, fps, frame)
                 /\ scene.transition = None
                 /\ preset.transitionDefaults.type \in {"quick-cut", "fade"}
                 /\ local < preset.transitionDefaults.durationFrames)
                => \E layer \in C7_CameraLayers(i) :
                       layer.wrapper.kind = preset.transitionDefaults.type

----------------------------------------------------------------------------
(* Claims about typography effects and preset lookup *)

\* The local frame and window length of the typography layer rendered.
C8_Local == frame - out.startFrame

C8_Window == out.durationInFrames

\* C8 as stated: every typography effect, word-by-word included, has factor
\* 1 below d-8 and a factor forced below 1 inside the final 8 frames.
C8_EveryEffectFades ==
    out.kind = "typography" =>
        /\ C8_Local < C8_Window - 8 => out.style.exitOpacity = FInt(1)
        /\ C8_Local > C8_Window - 8 => FLess(out.style.exitOpacity, FInt(1))

\* C8: kinetic-slam, glow-reveal and bounce-in multiply their opacity by an
\* exit factor that is 1 up to local frame d-8 and (d - l)/8 after it,
\* whatever the entrance animation does; word-by-word applies no exit fade,
\* its factor is 1 at every frame of its window.
C8_SingleTextEffectsFade ==
    out.kind = "typography" =>
        IF out.style.effect = "word-by-word"
        THEN out.style.exitOpacity = FInt(1)
        ELSE out.style.exitOpacity =
                 IF C8_Local <= C8_Window - 8 THEN FInt(1)
                 ELSE Frac(C8_Window - C8_Local, 8)

\* A kinetic-slam whose window is longer than the fade, at its last frame.
C8_Witness ==
    /\ out.kind = "typography"
    /\ out.style.effect = "kinetic-slam"
    /\ C8_Window > 8
    /\ C8_Local = C8_Window - 1
    /\ out.style.exitOpacity = <<1, 8>>

\* C9: getPreset returns the built-in preset of that name for the four
\* built-in names and raises for every other name, at lookup time.
C9_UnknownNameRaises ==
    presetName # None =>
        IF presetName \in {"viral-popup", "clean-minimal", "bold-impact",
                           "neon-glow"}
        THEN IsPreset(preset) /\ preset.name = presetName
        ELSE IsRaised(preset)

----------------------------------------------------------------------------
(* Claims about captions *)

\* The caption layers of the rendered frame.
C10_CaptionLayers ==
    {out.layers[k].layer : k \in {j \in DOMAIN out.layers :
                                    out.layers[j].layer.kind = "captions"}}

\* The colors that count as the highlight of the clip's caption style: the
\* configured override and the style's default highlight.
C10_Highlights ==
    {TheClip.captions.color,
     getDefaultHighlightColor(TheClip.captions.style)} \ {None}

\* C10: in every caption style, a word that has appeared and matches an
\* entry of emphasizeWords case-insensitively has the highlight color, also
\* when it is not the active word.
C10_EmphasizedHighlighted ==
    out.kind = "frame" =>
        \A layer \in C10_CaptionLayers :
            \A i \in DOMAIN layer.words :
                (/\ layer.words[i].hasAppeared
                 /\ \E k \in DOMAIN TheClip.captions.emphasizeWords :
                       toLowerCase(TheClip.captions.emphasizeWords[k])
                           = toLowerCase(layer.words[i].text))
                => layer.words[i].color \in C10_Highlights

\* What a caption layer looks like, its style tag apart.
C11_Treatment(layer) ==
    [container |-> layer.container, backdrop |-> layer.backdrop,
     gap |-> layer.gap, words |-> layer.words]

\* The clip's caption layer at the rendered frame had its style been
\* clean-minimal.
C11_AsCleanMinimal ==
    CaptionLayer([TheClip EXCEPT !.captions.style = "clean-minimal"],
                 captions, fps, frame)

\* C11: a caption style tag outside the four known styles is rendered by
\* every style helper exactly as clean-minimal is.
C11_UnknownStyleIsCleanMinimal ==
    (out.kind = "frame"
     /\ TheClip.captions.style
            \notin {"viral-popup", "clean-minimal", "bold-impact", "neon-glow"})
    => \A layer \in C10_CaptionLayers :
           C11_Treatment(layer) = C11_Treatment(C11_AsCleanMinimal)

----------------------------------------------------------------------------
(* Claims about the frame-range and caption utilities *)

\* Entry i of the list asked about holds the time asked about in its
\* half-open interval (the time is the fraction t[1]/t[2] of a tick).
C12_Holds(i) ==
    LET num == tArgs.t[1]
        den == tArgs.t[2]
        entry == tArgs.items[i]
    IN  entry.startTime * den <= num /\ num < entry.endTime * den

\* C12: getActiveWord and getActiveSegment return the first entry in list
\* order with startTime <= t < endTime, and null when there is none.
C12_FirstHalfOpenMatch ==
    tRet.fn \in {"getActiveWord", "getActiveSegment"} =>
        IF \E i \in DOMAIN tArgs.items : C12_Holds(i)
        THEN \E i \in DOMAIN tArgs.items :
                /\ C12_Holds(i)
                /\ \A j \in 1..(i - 1) : ~C12_Holds(j)
                /\ tRet.value = <<tArgs.items[i]>>
        ELSE tRet.value = <<>>

\* t is the first entry's endTime and the second entry's startTime, and the
\* second entry is returned.
C12_Witness ==
    /\ tRet.fn = "getActiveWord"
    /\ Len(tArgs.items) = 2
    /\ tArgs.t = FInt(tArgs.items[1].endTime)
    /\ tArgs.items[2].startTime = tArgs.items[1].endTime
    /\ tRet.value = <<tArgs.items[2]>>

RECURSIVE Concatenated(_)
Concatenated(segments) == IF segments = <<>> THEN <<>> ELSE Head(segments).words \o Concatenated(Tail(segments))

C13_Ceil(n, m) == (n + m - 1) \div m

\* C13: groupWordsIntoSegments(words, m) with m >= 1 returns ceil(n/m)
\* segments whose word lists concatenated in order are the input; every
\* segment but the last has exactly m words, the last between 1 and m; each
\* segment runs from its first word's startTime to its last word's endTime;
\* no words give no segments.
C13_ConsecutiveChunks ==
    tRet.fn = "groupWordsIntoSegments" =>
        LET segments == tRet.value
            n == Len(tArgs.words)
            m == tArgs.m
        IN  /\ Len(segments) = C13_Ceil(n, m)
            /\ Concatenated(segments) = tArgs.words
            /\ \A k \in 1..(Len(segments) - 1) : Len(segments[k].words) = m
            /\ \A k \in DOMAIN segments :
                  LET chunk == segments[k].words
                  IN  /\ Len(chunk) \in 1..m
                      /\ segments[k].startTime = chunk[1].startTime
                      /\ segments[k].endTime = chunk[Len(chunk)].endTime
            /\ n = 0 => segments = <<>>

\* Nine words with gaps, six per segment: sizes 6 and 3.
C13_Witness ==
    /\ tRet.fn = "groupWordsIntoSegments"
    /\ Len(tArgs.words) = 9 /\ tArgs.m = 6
    /\ tArgs.words[2].startTime = 2
    /\ Len(tRet.value) = 2
    /\ Len(tRet.value[1].words) = 6 /\ Len(tRet.value[2].words) = 3
    /\ tRet.value[1].endTime = tArgs.words[6].endTime

\* The positions where a maximal run of non-space characters starts, and the
\* run that starts at position i.
C14_Starts(text) == {i \in DOMAIN text : text[i] # " " /\ (i = 1 \/ text[i - 1] = " ")}

C14_RunAt(text, i) == SubSeq(text, i, CHOOSE j \in i..Len(text) : (\A k \in i..j : text[k] # " ") /\ (j = Len(text) \/ text[j + 1] = " "))

\* C14: parseTranscriptToWords returns one word per non-empty
\* whitespace-separated token, in order; word i (from 0) spans
\* startTime + i*w to startTime + (i+1)*w with w = (endTime - startTime)/count,
\* so consecutive words abut, the first starts at startTime and the last ends
\* at endTime; an empty or whitespace-only transcript gives the empty list.
C14_EvenWords ==
    tRet.fn = "parseTranscriptToWords" =>
        LET starts == SetToSeq(C14_Starts(tArgs.transcript))
            count == Len(starts)
            words == tRet.value
        IN  /\ Len(words) = count
            /\ \A k \in DOMAIN words :
                  /\ words[k].text = C14_RunAt(tArgs.transcript, starts[k])
                  /\ words[k].startTime = Frac(tArgs.startTime * count + (k - 1) * (tArgs.endTime - tArgs.startTime), count)
                  /\ words[k].endTime = Frac(tArgs.startTime * count + k * (tArgs.endTime - tArgs.startTime), count)
            /\ \A k \in 1..(Len(words) - 1) : words[k].endTime = words[k + 1].startTime
            /\ count > 0 => /\ words[1].startTime = FInt(tArgs.startTime)
                            /\ words[count].endTime = FInt(tArgs.endTime)
            /\ (\A i \in DOMAIN tArgs.transcript : tArgs.transcript[i] = " ") => words = <<>>

\* Three words over a span that three does not divide, with a fractional cut.
C14_Witness ==
    /\ tRet.fn = "parseTranscriptToWords"
    /\ Len(tRet.value) = 3
    /\ tArgs.startTime = 1 /\ tArgs.endTime = 3
    /\ tRet.value[2].startTime = <<5, 3>>
    /\ tRet.value[3].text = <<"c">>

\* C15: for every durationFrames >= 0, isInRange is true exactly on the
\* frames startFrame .. startFrame + durationFrames - 1: never when
\* durationFrames = 0, and not at startFrame + durationFrames.
C15_HalfOpenRange ==
    (tRet.fn = "isInRange" /\ tArgs.durationFrames >= 0) =>
        /\ tRet.value = (tArgs.currentFrame \in tArgs.startFrame..(tArgs.startFrame + tArgs.durationFrames - 1))
        /\ tArgs.durationFrames = 0 => tRet.value = FALSE
        /\ tArgs.currentFrame = tArgs.startFrame + tArgs.durationFrames => tRet.value = FALSE

\* The frame just past a range of positive length.
C15_Witness ==
    /\ tRet.fn = "isInRange"
    /\ tArgs.durationFrames > 0
    /\ tArgs.currentFrame = tArgs.startFrame + tArgs.durationFrames
    /\ tRet.value = FALSE

\* C16: getProgress is 0 whenever the duration is <= 0; for a positive
\* duration it lies in [0, 1], does not decrease from one frame to the next,
\* is 0 at and before startFrame and 1 at and after startFrame + duration.
C16_BoundedMonotoneProgress ==
    tRet.fn = "getProgress" =>
        LET c == tArgs.currentFrame
            st == tArgs.startFrame
            d == tArgs.durationFrames
        IN  IF d <= 0 THEN tRet.value = FInt(0)
            ELSE /\ ~FLess(tRet.value, FInt(0))
                 /\ ~FLess(FInt(1), tRet.value)
                 /\ ~FLess(getProgress(c + 1, st, d), tRet.value)
                 /\ c <= st => tRet.value = FInt(0)
                 /\ c >= st + d => tRet.value = FInt(1)

\* A frame strictly inside a range of three frames, and one past its end.
C16_Witness ==
    /\ tRet.fn = "getProgress"
    /\ tArgs.durationFrames = 3
    /\ \/ tArgs.currentFrame = tArgs.startFrame + 2 /\ tRet.value = <<2, 3>>
       \/ tArgs.currentFrame = tArgs.startFrame + 4 /\ tRet.value = <<1, 1>>

\* C17: framesToSeconds(secondsToFrames(seconds, fps), fps) differs from
\* seconds by at most 1/fps, and framesToSeconds divides exactly: its result
\* times fps is the frame number.
C17_RoundTripWithinOneFrame ==
    tRet.fn = "framesToSeconds" =>
        LET seconds == Frac(tArgs.seconds, TimeDen)
            error == FSub(tRet.value, seconds)
        IN  /\ ~FLess(Frac(1, tArgs.fps), error)
            /\ ~FLess(error, Frac(0 - 1, tArgs.fps))
            /\ FMul(tRet.value, FInt(tArgs.fps)) = FInt(tRet.frames)

\* A round trip that does not give back the seconds it started from.
C17_Witness ==
    /\ tRet.fn = "framesToSeconds"
    /\ tRet.value # Frac(tArgs.seconds, TimeDen)
    /\ tArgs.seconds < 0

\* The shot list cut down to its first clip.
C18_FirstClipOnly == [shotList EXCEPT !.clips = IF Len(shotList.clips) = 0 THEN <<>> ELSE <<shotList.clips[1]>>]

\* C18: the output at every frame is what clips[0] alone gives, whatever
\* clips[1..] hold; with no clip it is the black background with no video,
\* scene or caption layer.
C18_OnlyFirstClipRendered ==
    out.kind # "idle" =>
        /\ out = ClipComposition(C18_FirstClipOnly, captions, preset, fps, frame)
        /\ Len(shotList.clips) = 0 => out = [kind |-> "frame", layers |-> <<>>]
        /\ out.kind = "frame" =>
              \A k \in DOMAIN out.layers :
                  out.layers[k].scene <= Len(shotList.clips[1].scenes)

\* A frame of a two-clip shot list whose first clip has no typography: the
\* second clip's typography, live at every frame, is not in the output, and
\* the captions are styled by the first clip's settings.
C18_Witness ==
    /\ Len(shotList.clips) = 2
    /\ out.kind = "frame"
    /\ Len(out.layers) > 1
    /\ shotList.clips[1].scenes[1].typography = <<>>
    /\ \A k \in DOMAIN out.layers : out.layers[k].layer.kind # "typography"
    /\ \E k \in DOMAIN out.layers :
          /\ out.layers[k].layer.kind = "captions"
          /\ out.layers[k].layer.style = shotList.clips[1].captions.style
          /\ out.layers[k].layer.style # shotList.clips[2].captions.style

\* Back-to-front rank of a layer kind.
C19_Rank(kind) == CASE kind = "video" -> 1 [] kind = "camera" -> 2 [] kind = "typography" -> 3 [] kind = "broll" -> 4 [] kind = "captions" -> 5

\* C19: the layers of a frame are, back to front, the base video, then for
\* a scene its camera content, its typography and its B-roll, then the
\* caption overlay; the video is below and the captions above every scene
\* layer, and there is a caption overlay only when caption segments were
\* supplied.
C19_LayerOrder ==
    out.kind = "frame" =>
        /\ \A k \in DOMAIN out.layers :
              /\ out.layers[k].layer.kind \in {"video", "camera", "typography", "broll", "captions"}
              /\ out.layers[k].layer.kind = "video" => k = 1
              /\ out.layers[k].layer.kind = "captions" =>
                    k = Len(out.layers) /\ Len(captions) > 0
              /\ out.layers[k].scene = 0 <=>
                    out.layers[k].layer.kind \in {"video", "captions"}
        /\ \A j \in DOMAIN out.layers : \A k \in DOMAIN out.layers :
              (j < k /\ out.layers[j].scene = out.layers[k].scene) =>
                  C19_Rank(out.layers[j].layer.kind)
                      <= C19_Rank(out.layers[k].layer.kind)

\* A frame showing all five kinds of layer.
C19_Witness ==
    /\ out.kind = "frame"
    /\ Len(out.layers) = 5
    /\ \A k \in 1..5 : C19_Rank(out.layers[k].layer.kind) = k

\* C20: for a quick-cut of D frames whose peak frame floor(0.3 * D) is at
\* least 1, at local frames 0..D-1 the flash opacity is l/peak up to the peak
\* and (D - l)/(D - peak) after it, the content opacity 0 up to the peak and
\* (l - peak)/(D - peak) after it; from local frame D on the children are
\* rendered as they are, with no flash overlay.
C20_FlashThenContent ==
    LET D == tArgs.durationInFrames
        l == frame - tArgs.startFrame
        peak == (3 * D) \div 10
    IN  (out.kind # "idle" /\ peak >= 1 /\ l >= 0) =>
            IF l >= D THEN out = PassThrough
            ELSE /\ out.kind = "quick-cut"
                 /\ out.flashOpacity = IF l <= peak THEN Frac(l, peak) ELSE Frac(D - l, D - peak)
                 /\ out.contentOpacity = IF l <= peak THEN FInt(0) ELSE Frac(l - peak, D - peak)

\* Six frames: the peak is frame 1, and frame 5 has flash 1/5, content 4/5.
C20_Witness ==
    /\ tArgs.durationInFrames = 6
    /\ frame - tArgs.startFrame = 5
    /\ out.kind = "quick-cut"
    /\ out.flashOpacity = <<1, 5>>
    /\ out.contentOpacity = <<4, 5>>

C22_SpringPresets ==
    out.kind = "progress" =>
        /\ frame = 0 => out.value = 0
        /\ tArgs.config = "critical" => out.value <= Scale
        /\ tArgs.config = "bouncy" /\ frame = MaxElapsed => out.peak > Scale

\* A frame at which the critical preset has passed 1 and is held at 1.
C22_Witness ==
    /\ out.kind = "progress"
    /\ tArgs.config = "critical"
    /\ out.animation.current > Scale + Scale \div 100
    /\ out.value = Scale

\* C23: an effect is active exactly at the frames startFrame <= frame <
\* startFrame + durationInFrames.  Outside them KineticSlam, WordByWord,
\* GlowReveal, BounceIn, BrollOverlay and CaptionOverlay render nothing and
\* ZoomPush, PanSweep and QuickCut return their children as they are; inside
\* them every effect but CaptionOverlay, which also needs an active segment,
\* renders or wraps.
C23_Wrappers == {"ZoomPush", "PanSweep", "PanSweepHorizontal", "QuickCut"}

C23_InWindow == frame >= tArgs.startFrame /\ frame < tArgs.startFrame + tArgs.durationInFrames

C23_ActiveInWindowOnly ==
    frame >= 0 =>
        /\ ~C23_InWindow /\ tArgs.component \in C23_Wrappers
               => out.kind = "children"
        /\ ~C23_InWindow /\ tArgs.component \notin C23_Wrappers
               => out.kind = "nothing"
        /\ C23_InWindow /\ tArgs.component # "CaptionOverlay"
               => out.kind \notin {"children", "nothing"}

\* The first frame after the window of a GlowReveal that starts late.
C23_Witness ==
    /\ tArgs.component = "GlowReveal"
    /\ tArgs.startFrame > 0 /\ tArgs.durationInFrames > 0
    /\ frame = tArgs.startFrame + tArgs.durationInFrames
    /\ out.kind = "nothing"

\* C24: the typography of a scene is rendered by the effect its style tag
\* names, kinetic-slam for any other tag, and its layer is in the tree
\* exactly at the scene-local frames [enterFrame, enterFrame + duration)
\* inside the scene's own window, with enterFrame =
\* secondsToFrames(enterAt - scene.startTime, fps) and duration =
\* durationInFrames(enterAt, exitAt, fps); enterAt 21, exitAt 28, scene
\* start 20 and fps 30 give 30 and 210.
C24_Scene == tArgs.scenes[1]

C24_Local == frame - secondsToFrames(C24_Scene.startTime - tArgs.startTime, fps)

C24_EnterFrame == secondsToFrames(C24_Scene.typography[1].enterAt - C24_Scene.startTime, fps)

C24_Duration == durationInFrames(C24_Scene.typography[1].enterAt, C24_Scene.typography[1].exitAt, fps)

C24_Visible ==
    /\ C24_Local >= 0
    /\ C24_Local < durationInFrames(C24_Scene.startTime, C24_Scene.endTime, fps)
    /\ C24_Local >= C24_EnterFrame
    /\ C24_Local < C24_EnterFrame + C24_Duration

C24_TypographyLayers ==
    {k \in DOMAIN out.layers : out.layers[k].layer.kind = "typography"}

C24_TypographyWindow ==
    /\ secondsToFrames((21 - 20) * TimeDen, 30) = 30
    /\ durationInFrames(21 * TimeDen, 28 * TimeDen, 30) = 210
    /\ frame >= 0 =>
          /\ out.kind = "layers"
          /\ C24_Visible <=> C24_TypographyLayers # {}
          /\ \A k \in C24_TypographyLayers :
                /\ out.layers[k].layer.startFrame = C24_EnterFrame
                /\ out.layers[k].layer.durationInFrames = C24_Duration
                /\ out.layers[k].layer.style.effect =
                      IF C24_Scene.typography[1].style \in Styles
                      THEN C24_Scene.typography[1].style
                      ELSE "kinetic-slam"

\* A text with an unknown tag that entered after its scene started, shown
\* by kinetic-slam at its last frame, in a scene that starts late.
C24_Witness ==
    /\ frame >= 0
    /\ C24_Scene.startTime > 0
    /\ C24_Scene.typography[1].style = "marquee"
    /\ C24_EnterFrame > 0
    /\ C24_Local = C24_EnterFrame + C24_Duration - 1
    /\ C24_TypographyLayers # {}
    /\ \A k \in C24_TypographyLayers :
          out.layers[k].layer.style.effect = "kinetic-slam"

\* C25: PanSweep translates along X for left and right and along Y for up
\* and down, toward sign * amount with sign -1 for left and up and +1 for
\* right and down: the translation is 0 at local frame 0 and sign * amount
\* at the last local frame of the window.
C25_Sign == IF tArgs.pan.direction \in {"left", "up"} THEN 0 - 1 ELSE 1

C25_PanAxisAndSign ==
    /\ tArgs.component \in {"PanSweep", "PanSweepHorizontal"}
    /\ C23_InWindow
    /\ tArgs.durationInFrames >= 2
    => /\ out.kind = "pan"
       /\ out.axis = IF tArgs.pan.direction \in {"up", "down"} THEN "Y" ELSE "X"
       /\ out.translate.kind = "eased"
       /\ out.translate.easing = "slow"
       /\ out.translate.t = Frac(frame - tArgs.startFrame, tArgs.durationInFrames - 1)
       /\ frame = tArgs.startFrame => EasedAt(out.translate) = <<FInt(0)>>
       /\ frame = tArgs.startFrame + tArgs.durationInFrames - 1
             => EasedAt(out.translate) = <<FInt(C25_Sign * tArgs.pan.amount)>>

\* C26: a B-roll window of d frames with F = min(10, floor(0.15 d)) >= 1 and
\* ceiling c (0.6 when the scene gives none) has opacity 0 at local frame
\* 0, c * l / F up to frame F, c on [F, d - F], and c * (d - l) / F from
\* frame d - F on, which would reach 0 at frame d; it stays within [0, c].
C26_Local == frame - tArgs.startFrame

C26_Fade == Min(10, (tArgs.durationInFrames * 15) \div 100)

C26_Ceiling == IF tArgs.opacity = <<>> THEN <<3, 5>> ELSE tArgs.opacity

C26_BrollFades ==
    /\ tArgs.component = "BrollOverlay"
    /\ C23_InWindow
    /\ C26_Fade >= 1
    => /\ out.kind = "broll"
       /\ C26_Local = 0 => out.opacity = FInt(0)
       /\ C26_Local <= C26_Fade
             => out.opacity = FMul(C26_Ceiling, Frac(C26_Local, C26_Fade))
       /\ C26_Local >= C26_Fade /\ C26_Local <= tArgs.durationInFrames - C26_Fade
             => out.opacity = C26_Ceiling
       /\ C26_Local >= tArgs.durationInFrames - C26_Fade
             => out.opacity = FMul(C26_Ceiling, Frac(tArgs.durationInFrames - C26_Local, C26_Fade))
       /\ ~FLess(out.opacity, FInt(0))
       /\ ~FLess(C26_Ceiling, out.opacity)

\* The last frame of a long window under a ceiling of its own: a tenth of
\* the ceiling is left.
C26_Witness ==
    /\ tArgs.component = "BrollOverlay"
    /\ tArgs.opacity # <<>>
    /\ C26_Fade = 10
    /\ C26_Local = tArgs.durationInFrames - 1
    /\ out.kind = "broll"
    /\ out.opacity = FMul(C26_Ceiling, Frac(1, 10))

\* C27: at every frame of a scene whose transition is quick-cut, during
\* the transition window and after it, the scene's camera content is in
\* the layer tree exactly once.
C27_CameraPositions(i) ==
    {k \in DOMAIN out.layers : /\ out.layers[k].scene = i
                               /\ out.layers[k].layer.kind = "camera"}

C27_CameraContentOnce ==
    (HasClip /\ out.kind = "frame") =>
        \A i \in 1..Len(TheClip.scenes) :
            (/\ SceneMounted(TheClip, TheClip.scenes[i], fps, frame)
             /\ TheClip.scenes[i].transition = "quick-cut")
            => Cardinality(C27_CameraPositions(i)) = 1

\* C28: where the frame windows of two consecutive scenes abut, the focus
\* point at the last frame of the earlier scene is the focus point at the
\* first frame of the later one, whatever the length of the earlier scene.
C28_VideoFocus ==
    {out.layers[k].layer.focus : k \in {j \in DOMAIN out.layers :
                                          out.layers[j].layer.kind = "video"}}

C28_LastFrameBeforeCut(i) ==
    /\ SceneMounted(TheClip, TheClip.scenes[i], fps, frame)
    /\ currentSceneIndex(TheClip, fps, frame) = i
    /\ frame + 1 = SceneStart(TheClip, TheClip.scenes[i + 1], fps)
    /\ frame + 1 = SceneStart(TheClip, TheClip.scenes[i], fps)
                       + SceneDuration(TheClip.scenes[i], fps)
    /\ currentSceneIndex(TheClip, fps, frame + 1) = i + 1

C28_NoJumpAcrossCut ==
    (HasClip /\ out.kind = "frame") =>
        \A i \in 1..(Len(TheClip.scenes) - 1) :
            C28_LastFrameBeforeCut(i)
            => C28_VideoFocus = {Focus(TheClip, fps, frame + 1)}

\* C29: in CaptionOverlay and in WordByWord a word that is active at the
\* frame (the current time is within [startTime, endTime)) has appeared
\* (the frame is at or past the word's rounded start frame).
C29_ActiveWordHasAppeared ==
    (\/ tArgs.component = "WordByWord" /\ out.kind = "effect"
     \/ tArgs.component = "CaptionOverlay" /\ out.kind = "captions")
    => \A i \in DOMAIN out.words :
           out.words[i].isActive => out.words[i].hasAppeared

\* A word whose start falls between two frames, active at the frame its
\* start is rounded up to.
C29_Witness ==
    /\ tArgs.component = "WordByWord"
    /\ out.kind = "effect"
    /\ fps = 5
    /\ \E i \in DOMAIN out.words :
          /\ out.words[i].isActive
          /\ out.words[i].text = <<"o", "n">>
          /\ out.words[i].appearFrame = <<0>>

\* C30: when the scenes of a clip are contiguous in seconds (the first
\* starts at clip.startTime, each ends where the next starts, the last ends
\* at clip.endTime), every frame of the clip lies in the frame window of
\* some scene.
C30_ContiguousInSeconds ==
    /\ Len(TheClip.scenes) > 0
    /\ TheClip.scenes[1].startTime = TheClip.startTime
    /\ TheClip.scenes[Len(TheClip.scenes)].endTime = TheClip.endTime
    /\ \A i \in 1..(Len(TheClip.scenes) - 1) :
          TheClip.scenes[i].endTime = TheClip.scenes[i + 1].startTime

C30_EveryFrameInAScene ==
    (/\ HasClip
     /\ C30_ContiguousInSeconds
     /\ frame >= 0
     /\ frame < durationInFrames(TheClip.startTime, TheClip.endTime, fps))
    => currentSceneIndex(TheClip, fps, frame) > 0

====
